---- MODULE Spec2Model ----
(***************************************************************************)
(* Label placement and lifecycle engine of harp.gl's mapview:              *)
(*   TextElementStateCache  (lib/text/TextElementStateCache.ts)            *)
(*   TextElementsRenderer   (lib/text/TextElementsRenderer.ts)             *)
(* TextElementGroupState, TextElementState and RenderState are not part of *)
(* the sources at hand; they are modelled from the specification.          *)
(***************************************************************************)
EXTENDS Integers, Sequences, FiniteSets, TLC

(***************************************************************************)
(* Scene: the text element groups the data source delivers.  Group g is    *)
(* the ordered list GroupElements[g] followed by GroupPad[g] further       *)
(* elements that never pass the pre-placement check (they only count).     *)
(***************************************************************************)
Groups == {1, 2, 3, 4, 5}

GroupElements == << <<1>>, <<2, 3>>, <<4>>, <<>>, <<5, 6, 7, 8>> >>

GroupPriority == <<5, 5, 3, 1, 5>>

GroupPad == <<0, 0, 19997, 1, 19997>>

Elements == {1, 2, 3, 4, 5, 6, 7, 8}

ElementType ==
    <<"PoiLabel", "PoiLabel", "LineMarker", "PathLabel",
      "PathLabel", "PoiLabel", "PathLabel", "PathLabel">>

ElementText == <<"a", "a", "", "p", "ss", "a", "q", "r">>

\* textElement.glyphs.length once the glyphs are retrieved.
GlyphCount == <<1, 1, 0, 1, 2, 1, 1, 1>>

\* World position of the anchor in metres along one axis (element.points).
ElementPos == <<0, 1000, 0, 0, 0, 4873, 0, 0>>

\* Number of anchor points of the element (the path of a line marker or of a
\* path label).
ElementPoints == <<1, 1, 2, 2, 2, 1, 2, 2>>

\* Number of these points that project onto the screen.
PointsOnScreen == <<1, 1, 2, 2, 2, 1, 0, 2>>

\* The element has a poiInfo (an icon); the point labels are text only.
HasPoiInfo == <<FALSE, FALSE, TRUE, FALSE, FALSE, FALSE, FALSE, FALSE>>

\* textElement.textMayOverlap
TextMayOverlap == <<FALSE, FALSE, FALSE, FALSE, FALSE, FALSE, FALSE, FALSE>>

\* textElement.renderOrder: the layer of the text canvas the element is
\* added to.
RenderOrder == <<0, 0, 0, 0, 1, 1, 1, 1>>

\* The cells of the screen; the cells of a box outside this set are off
\* screen.
ScreenCells == 1..8

\* Screen cells covered by the text of an element, and by its icon at each
\* anchor point.  The camera does not move: the boxes are the same in every
\* frame.
TextBox == <<{1}, {1}, {}, {4}, {6, 7}, {8}, {}, {5, 9}>>

IconBox == << <<{}>>, <<{}>>, <<{2}, {3}>>, <<>>, <<>>, <<{}>>, <<>>, <<>> >>

\* The boxes of the characters of a path label along its path.
CharBoxes == << <<>>, <<>>, <<>>, <<{4}>>, <<{6}, {7}>>, <<>>, <<{}>>, <<{5}, {9}>> >>

Texts == {"a", "", "p", "ss", "q", "r"}

\* Tiles of the single data source, in ascending Morton code.
Tiles == {1, 2, 3, 4}

TileGroups == << <<1>>, <<2, 3>>, <<4>>, <<5>> >>

\* tile.blockingElements: each blocking element is the sequence of the screen
\* cells its points project to.
TileBlocking == << <<>>, <<>>, << <<6, 7>>, <<8>> >>, <<>> >>

\* The layers of the text canvas and the capacity of their glyph storage.
Layers == {0, 1}

LayerCapacity == [layer \in Layers |-> IF layer = 0 THEN 8 ELSE 2]

\* The overlay text element: its layer and the number of its glyphs.
Overlay == [renderOrder |-> 1, glyphs |-> 1]

(***************************************************************************)
(* Bounds of the model.                                                    *)
(***************************************************************************)
\* Number of state objects per group that can be alive at once (cached or
\* still referenced by the text index).
MaxGen == 2

\* Largest time step between two frames, in units of the fade duration.
MaxDt == 1

(***************************************************************************)
(* Program constants.                                                      *)
(***************************************************************************)
MAX_LABEL_DUPLICATE_DIST_SQ == 15000000

OVERLOAD_LABEL_LIMIT == 20000

OVERLOAD_UPDATED_LABEL_LIMIT == 100

OVERLOAD_UPDATE_TIME_LIMIT == 5

OVERLOAD_PLACE_TIME_LIMIT == 10

\* Fade duration in time units (RenderState's configured fade duration).
FadeTime == 1

Gens == 1..MaxGen

Refs == Elements \X Gens

Range(s) == {s[i] : i \in DOMAIN s}

Min(a, b) == IF a < b THEN a ELSE b

GroupLength(g) == Len(GroupElements[g]) + GroupPad[g]

(***************************************************************************)
(* RenderState: the fade state machine of one text or icon instance.       *)
(*   state : Undefined, FadingIn, FadedIn, FadingOut, FadedOut             *)
(*   age   : time since the running fade started                           *)
(*   last  : frames since lastFrameNumber was set (2 = older than the      *)
(*           previous frame, or never)                                     *)
(***************************************************************************)
NewRenderState == [state |-> "Undefined", age |-> 0, last |-> 2]

isUndefined(rs) == rs.state = "Undefined"

isFadingIn(rs) == rs.state = "FadingIn"

isFadingOut(rs) == rs.state = "FadingOut"

isFadedOut(rs) == rs.state = "FadedOut"

isFading(rs) == rs.state \in {"FadingIn", "FadingOut"}

isVisible(rs) == rs.state \in {"FadingIn", "FadedIn", "FadingOut"}

\* startFadeIn(frameNumber, time): a state not rendered in the previous frame
\* restarts from scratch; a fade-in that is running or complete is kept.
startFadeIn(rs) ==
    IF rs.state \in {"FadingIn", "FadedIn"} /\ rs.last < 2 THEN rs
    ELSE [rs EXCEPT !.state = "FadingIn", !.age = 0]

startFadeOut(rs) ==
    IF rs.state \in {"FadingOut", "FadedOut"} THEN rs
    ELSE [rs EXCEPT !.state = "FadingOut", !.age = 0]

\* checkStartFadeIn(frameNumber, time, forceFadeIn): the guarded variant; it
\* marks the state as rendered in this frame.
checkStartFadeIn(rs, force) ==
    LET r1 == IF force \/ isUndefined(rs) \/ rs.last >= 2 THEN startFadeIn(rs) ELSE rs
    IN  [r1 EXCEPT !.last = 0]

checkStartFadeOut(rs) == [startFadeOut(rs) EXCEPT !.last = 0]

\* RenderState.updateFading(time, disableFading)
rsUpdateFading(rs, dt, disableFading) ==
    IF ~isFading(rs) THEN rs
    ELSE IF disableFading \/ rs.age + dt >= FadeTime
         THEN [rs EXCEPT !.state = IF isFadingIn(rs) THEN "FadedIn" ELSE "FadedOut",
                         !.age = 0]
         ELSE [rs EXCEPT !.age = rs.age + dt]

\* The view's frame number advanced by one.
rsNextFrame(rs) == [rs EXCEPT !.last = Min(rs.last + 1, 2)]

(***************************************************************************)
(* TextElementState: per element placement state.                          *)
(*   init  : the render states exist (the state is initialized)            *)
(*   dist  : viewDistance is defined                                       *)
(*   text  : text render state                                             *)
(*   icons : icon render states, one per anchor point                      *)
(***************************************************************************)
NumIcons(e) == IF ElementType[e] = "PathLabel" THEN 0 ELSE ElementPoints[e]

NewElementState ==
    [init |-> FALSE, dist |-> FALSE, text |-> NewRenderState, icons |-> <<>>]

esVisible(s) ==
    s.init /\ (isVisible(s.text) \/ \E i \in DOMAIN s.icons : isVisible(s.icons[i]))

\* TextElementState.update(viewDistance)
esUpdate(s, e, dist) ==
    IF ~s.init /\ dist
    THEN [init |-> TRUE, dist |-> TRUE, text |-> NewRenderState,
          icons |-> [i \in 1..NumIcons(e) |-> NewRenderState]]
    ELSE [s EXCEPT !.dist = dist]

\* TextElementState.reset()
esReset(s) ==
    [s EXCEPT !.dist = FALSE,
              !.text = NewRenderState,
              !.icons = [i \in DOMAIN s.icons |-> NewRenderState]]

\* TextElementState.updateFading(time, disableFading)
esUpdateFading(s, dt, disableFading) ==
    [s EXCEPT !.text = rsUpdateFading(s.text, dt, disableFading),
              !.icons = [i \in DOMAIN s.icons |->
                            rsUpdateFading(s.icons[i], dt, disableFading)]]

esNextFrame(s) ==
    [s EXCEPT !.text = rsNextFrame(s.text),
              !.icons = [i \in DOMAIN s.icons |-> rsNextFrame(s.icons[i])]]

\* TextElementState.replace(predecessor): takes over the predecessor's render
\* states.
esReplace(s, pred) == [s EXCEPT !.init = pred.init, !.text = pred.text, !.icons = pred.icons]

\* What replace() leaves of the predecessor: its render states are gone.
esReplaced(pred) == [pred EXCEPT !.init = FALSE, !.text = NewRenderState, !.icons = <<>>]

(***************************************************************************)
(* TextElementGroupState.  A group state object is identified by the group *)
(* it was built from and a generation number; its element state objects    *)
(* are the references <<element, generation>> into the heap of element     *)
(* states.                                                                 *)
(***************************************************************************)
NoGroupState == [gen |-> 0, group |-> 0, visited |-> FALSE]

\* groupState.textElementStates (the elements modelled one by one)
textElementStates(gs) ==
    [i \in 1..Len(GroupElements[gs.group]) |-> <<GroupElements[gs.group][i], gs.gen>>]

\* groupState.size
gsSize(gs) == GroupLength(gs.group)

\* groupState.priority
gsPriority(gs) == GroupPriority[gs.group]

(***************************************************************************)
(* TextElementStateCache.  A cache value c is the record                   *)
(*   ref    : keys of m_referenceMap in insertion order                    *)
(*   gs     : key -> group state (NoGroupState when the key is absent)     *)
(*   es     : heap of element states                                       *)
(*   tm     : m_textMap, text -> candidates (<<>> when the text is absent) *)
(*   sorted : m_sortedGroupStates, [def, v]                                *)
(*   failed : the assert() calls that did not hold in the last operation   *)
(***************************************************************************)
UndefinedSorted == [def |-> FALSE, v |-> <<>>]

EmptyCache ==
    [ref |-> <<>>,
     gs |-> [g \in Groups |-> NoGroupState],
     es |-> [r \in Refs |-> NewElementState],
     tm |-> [t \in Texts |-> <<>>],
     sorted |-> UndefinedSorted,
     failed |-> {}]

\* assert(condition) at the place `where`: a failure is recorded and the call
\* continues.
Expect(c, condition, where) ==
    IF condition THEN c ELSE [c EXCEPT !.failed = @ \cup {where}]

DistSq(e1, e2) == (ElementPos[e1] - ElementPos[e2]) * (ElementPos[e1] - ElementPos[e2])

\* A test that compares the distance, not its square, with the threshold.
IsNearUnsquared(e1, e2) == ElementPos[e1] - ElementPos[e2] < MAX_LABEL_DUPLICATE_DIST_SQ

\* The distance test of findDuplicate (lines 244-247).
IsNear(e1, e2) == DistSq(e1, e2) < MAX_LABEL_DUPLICATE_DIST_SQ

\* findDuplicate: [defined, index]; index = -1 when no cached candidate is
\* near enough, otherwise the (1-based) position of the first one that is.
findDuplicate(c, r) ==
    LET cachedEntries == c.tm[ElementText[r[1]]]
        near == {i \in DOMAIN cachedEntries : IsNear(r[1], cachedEntries[i][1])}
    IN  IF cachedEntries = <<>> THEN [defined |-> FALSE, index |-> -1]
        ELSE [defined |-> TRUE,
              index |-> IF near = {} THEN -1
                        ELSE CHOOSE i \in near : \A j \in near : i <= j]

\* A substitution that does not ask whether the new state is visible.
SubstituteInvisible(cachedVisible, newVisible) == ~cachedVisible

\* The test of deduplicateElement that lets the new state take the place of
\* the cached duplicate.
SubstituteCached(cachedVisible, newVisible) == ~cachedVisible /\ newVisible

\* deduplicateElement once findDuplicate has returned cacheResult.
deduplicateFound(c, r, cacheResult) ==
    LET text == ElementText[r[1]]
        cachedDuplicate == c.tm[text][cacheResult.index]
    IN  IF ~cacheResult.defined
        THEN [c |-> [c EXCEPT !.tm[text] = <<r>>], res |-> TRUE]
        ELSE IF cacheResult.index = -1
        THEN [c |-> [c EXCEPT !.tm[text] = Append(@, r)], res |-> TRUE]
        ELSE IF SubstituteCached(esVisible(c.es[cachedDuplicate]), esVisible(c.es[r]))
        THEN [c |-> [c EXCEPT !.tm[text][cacheResult.index] = r,
                              !.es[cachedDuplicate] = esReset(@)],
              res |-> TRUE]
        ELSE [c |-> c, res |-> FALSE]

\* deduplicateElement: [c, res]
deduplicateElement(c, r) ==
    IF ElementType[r[1]] # "PoiLabel" THEN [c |-> c, res |-> TRUE]
    ELSE deduplicateFound(c, r, findDuplicate(c, r))

\* replaceElement once findDuplicate has returned cacheResult; c is the cache
\* after the first assertion.
replaceFound(c, r, cacheResult) ==
    LET replacement == c.tm[ElementText[r[1]]][cacheResult.index]
    IN  IF ~cacheResult.defined \/ cacheResult.index = -1 THEN c
        ELSE [Expect(c, ~esVisible(c.es[replacement]), "replaceElement.replacement")
                EXCEPT !.es[replacement] = esReplace(@, c.es[r]),
                       !.es[r] = esReplaced(@)]

\* A replaceElement that finds no replacement.
replaceNothing(c, r) == Expect(c, esVisible(c.es[r]), "replaceElement.visible")

\* replaceElement
replaceElement(c, r) ==
    IF ElementType[r[1]] # "PoiLabel"
    THEN Expect(c, esVisible(c.es[r]), "replaceElement.visible")
    ELSE replaceFound(Expect(c, esVisible(c.es[r]), "replaceElement.visible"), r,
                      findDuplicate(c, r))

\* The result dd of deduplicateElement as the filter's result.
Selected(dd) == [c |-> dd.c, dist |-> dd.res]

\* The pre-placement filter of prepareTextElementGroup: checkReadyForPlacement
\* (the element is in `ready`) followed by deduplicateElement.  [c, dist]
textElementSelection(c, r, ready) ==
    IF r[1] \in ready THEN Selected(deduplicateElement(c, r))
    ELSE [c |-> c, dist |-> FALSE]

\* The element state r updated with the filter's result f.
updateElement(f, r) == [f.c EXCEPT !.es[r] = esUpdate(@, r[1], f.dist)]

\* Applies the filter to the element states refs[i..] and updates each with
\* the result (TextElementGroupState's constructor and updateElements).
RECURSIVE updateElements(_, _, _, _)
updateElements(c, refs, i, ready) ==
    IF i > Len(refs) THEN c
    ELSE updateElements(updateElement(textElementSelection(c, refs[i], ready), refs[i]),
                        refs, i + 1, ready)

\* The element state r is referenced: by a group state of the reference map
\* or by an entry of the text map.
IsLiveRef(c, r) ==
    \/ \E g \in Groups : /\ c.gs[g].gen = r[2]
                          /\ \E i \in DOMAIN GroupElements[c.gs[g].group] :
                                 GroupElements[c.gs[g].group][i] = r[1]
    \/ \E i \in DOMAIN c.tm[ElementText[r[1]]] : c.tm[ElementText[r[1]]][i] = r

\* A generation of group g none of whose element states is referenced any
\* more (0 if there is none).
FreeGen(c, g) ==
    LET free == {k \in Gens : \A i \in DOMAIN GroupElements[g] :
                                  ~IsLiveRef(c, <<GroupElements[g][i], k>>)}
    IN  IF free = {} THEN 0 ELSE CHOOSE k \in free : \A j \in free : k <= j

\* The group an element belongs to.
GroupOf ==
    [e \in Elements |->
        CHOOSE g \in Groups : \E i \in DOMAIN GroupElements[g] : GroupElements[g][i] = e]

ElementGroup(e) == GroupOf[e]

\* The element states some object still refers to.
LiveRefs(c) == {r : r \in {x \in Refs : IsLiveRef(c, x)}}

\* Element states no object refers to any more are dropped from the heap;
\* live is LiveRefs(c).
Collect(c, live) ==
    [c EXCEPT !.es = [r \in Refs |-> IF r \in live THEN c.es[r] ELSE NewElementState]]

\* Generations of the state objects built from group grp: those in the
\* reference map, and all that are referenced at all.
CachedGens(c, grp) == {c.gs[key].gen : key \in {k \in Groups : c.gs[k].group = grp}}

LiveGens(live, grp) == {r[2] : r \in {x \in live : GroupOf[x[1]] = grp}}

\* Generation numbers are object identities and carry no meaning of their
\* own: the live generations of each group are renumbered from 1, cached ones
\* first.  NewGen(c, live, grp, k) is the new number of live generation k.
NewGen(c, live, grp, k) ==
    1 + Cardinality({j \in LiveGens(live, grp) :
                        \/ (j \in CachedGens(c, grp) /\ k \notin CachedGens(c, grp))
                        \/ ((j \in CachedGens(c, grp) <=> k \in CachedGens(c, grp)) /\ j < k)})

RenumberRef(c, live, r) == <<r[1], NewGen(c, live, GroupOf[r[1]], r[2])>>

Renumber(c, live) ==
    [c EXCEPT
       !.gs = [g \in Groups |->
                 IF c.gs[g].gen = 0 THEN c.gs[g]
                 ELSE [c.gs[g] EXCEPT !.gen = NewGen(c, live, c.gs[g].group, c.gs[g].gen)]],
       !.es = [r \in Refs |->
                 LET old == {k \in LiveGens(live, GroupOf[r[1]]) :
                               NewGen(c, live, GroupOf[r[1]], k) = r[2]}
                 IN  IF old = {} THEN NewElementState
                     ELSE c.es[<<r[1], CHOOSE k \in old : TRUE>>]],
       !.tm = [t \in Texts |->
                 [i \in DOMAIN c.tm[t] |-> RenumberRef(c, live, c.tm[t][i])]]]

\* The heap after an operation: garbage dropped, identities renumbered.
Collected(c, live) == Renumber(Collect(c, live), live)

Settle(c) == Collected(c, LiveRefs(c))

\* The cache at the start of an operation.
Enter(c) == [c EXCEPT !.failed = {}]

\* A lookup that never finds the group.
getNothing(c, textElementGroup) == [c |-> c, found |-> FALSE]

\* get(textElementGroup): [c, found]; a hit marks the group state visited.
get(c, textElementGroup) ==
    IF c.gs[textElementGroup].gen # 0
    THEN [c |-> [c EXCEPT !.gs[textElementGroup].visited = TRUE], found |-> TRUE]
    ELSE [c |-> c, found |-> FALSE]

\* set(textElementGroup, textElementGroupState)
set(c, textElementGroup, textElementGroupState) ==
    [Expect(c, GroupLength(textElementGroup) > 0, "set")
       EXCEPT !.gs[textElementGroup] = textElementGroupState,
              !.ref = IF textElementGroup \in Range(@) THEN @
                      ELSE Append(@, textElementGroup),
              !.sorted = UndefinedSorted]

\* A group state built from the largest group, whatever group is asked for.
StateOfLargeGroup(textElementGroup) == 3

\* The group a new group state is built from in getOrSet.
StateGroup(textElementGroup) == textElementGroup

\* new TextElementGroupState(textElementGroup, ...): a state object not in
\* use, visited from the start.
NewGroupState(c, textElementGroup) ==
    [gen |-> FreeGen(c, StateGroup(textElementGroup)),
     group |-> StateGroup(textElementGroup), visited |-> TRUE]

\* What getOrSet returns with the cache c it leaves.
GroupStateReturned(c, textElementGroup, found) ==
    [c |-> c, state |-> c.gs[textElementGroup], wasCached |-> found]

\* The miss of getOrSet: the state `new` is filled and set.
getOrSetNew(c, textElementGroup, new, ready) ==
    GroupStateReturned(set(updateElements(c, textElementStates(new), 1, ready),
                           textElementGroup, new),
                       textElementGroup, FALSE)

\* getOrSet once get() has returned `got`.
getOrSetFound(got, c, textElementGroup, ready) ==
    IF got.found
    THEN GroupStateReturned(
             updateElements(
                 Expect(got.c,
                        gsSize(got.c.gs[textElementGroup]) = GroupLength(textElementGroup),
                        "getOrSet"),
                 textElementStates(got.c.gs[textElementGroup]), 1, ready),
             textElementGroup, TRUE)
    ELSE getOrSetNew(c, textElementGroup, NewGroupState(c, textElementGroup), ready)

\* getOrSet(textElementGroup, textElementFilter): [c, state, wasCached]
getOrSet(c, textElementGroup, ready) ==
    getOrSetFound(get(c, textElementGroup), c, textElementGroup, ready)

\* One element of TextElementGroupState.updateFading: c is the cache with the
\* element's fading updated.
elementFaded(c, r, replace) ==
    [c |-> IF esVisible(c.es[r]) /\ replace THEN replaceElement(c, r) ELSE c,
     visible |-> esVisible(c.es[r])]

\* TextElementGroupState.updateFading(time, disableFading, replaceCallback):
\* [c, visible]
RECURSIVE gsUpdateFading(_, _, _, _, _, _, _)
gsFaded(f, refs, i, dt, disableFading, replace, groupVisible) ==
    gsUpdateFading(f.c, refs, i + 1, dt, disableFading, replace, groupVisible \/ f.visible)

gsUpdateFading(c, refs, i, dt, disableFading, replace, groupVisible) ==
    IF i > Len(refs) THEN [c |-> c, visible |-> groupVisible]
    ELSE gsFaded(elementFaded([c EXCEPT !.es[refs[i]] = esUpdateFading(@, dt, disableFading)],
                              refs[i], replace),
                 refs, i, dt, disableFading, replace, groupVisible)

\* A group is kept only while it is visible.
KeepVisibleOnly(visible, visited) == visible

\* The decision of update() to keep a group.
KeepGroup(visible, visited) == visible \/ visited

RemoveKey(seq, g) == SelectSeq(seq, LAMBDA x : x # g)

\* The body of update()'s loop after updateFading has returned f for the group
\* state under `key`: [c, keep, visible].
updateGroup(f, key, visited) ==
    [c |-> IF KeepGroup(f.visible, visited) THEN f.c
           ELSE [f.c EXCEPT !.gs[key] = NoGroupState,
                            !.ref = RemoveKey(@, key),
                            !.sorted = UndefinedSorted],
     keep |-> KeepGroup(f.visible, visited),
     visible |-> f.visible]

\* update(time, disableFading, findReplacements): [c, anyEviction, visible,
\* disableFading]; visible is the set of keys whose updateFading reported the
\* group visible, disableFading the argument the call received.
RECURSIVE updateLoop(_, _, _, _, _, _, _, _)
updateNext(u, keys, i, dt, disableFading, findReplacements, anyEviction, visibleKeys) ==
    updateLoop(u.c, keys, i + 1, dt, disableFading, findReplacements,
               anyEviction \/ ~u.keep,
               IF u.visible THEN visibleKeys \cup {keys[i]} ELSE visibleKeys)

updateLoop(c, keys, i, dt, disableFading, findReplacements, anyEviction, visibleKeys) ==
    IF i > Len(keys)
    THEN [c |-> c, anyEviction |-> anyEviction, visible |-> visibleKeys,
          disableFading |-> disableFading]
    ELSE updateNext(updateGroup(gsUpdateFading(c, textElementStates(c.gs[keys[i]]), 1, dt,
                                               disableFading,
                                               IF c.gs[keys[i]].visited THEN FALSE
                                               ELSE findReplacements,
                                               FALSE),
                                keys[i], c.gs[keys[i]].visited),
                    keys, i, dt, disableFading, findReplacements, anyEviction, visibleKeys)

update(c, dt, disableFading, findReplacements) ==
    updateLoop(c, c.ref, 1, dt, disableFading, findReplacements, FALSE, {})

clearVisited(c) == [c EXCEPT !.gs = [g \in Groups |-> [c.gs[g] EXCEPT !.visited = FALSE]]]

clearTextCache(c) == [c EXCEPT !.tm = [t \in Texts |-> <<>>]]

\* A clear that leaves the text index as it is.
clearGroups(c) ==
    [c EXCEPT !.ref = <<>>,
              !.gs = [g \in Groups |-> NoGroupState],
              !.sorted = UndefinedSorted]

\* clear()
clear(c) ==
    [c EXCEPT !.ref = <<>>,
              !.gs = [g \in Groups |-> NoGroupState],
              !.sorted = UndefinedSorted,
              !.tm = [t \in Texts |-> <<>>]]

\* A sort that leaves the keys in the order of the map.
RECURSIVE KeepMapOrder(_, _)
KeepMapOrder(c, keys) == IF keys = <<>> THEN <<>> ELSE <<Head(keys)>> \o KeepMapOrder(c, Tail(keys))

\* Stable sort of group state keys by descending priority (insertion sort).
RECURSIVE SortByPriority(_, _)
SortByPriority(c, keys) ==
    IF keys = <<>> THEN <<>>
    ELSE LET rest == SortByPriority(c, Tail(keys))
             k == Head(keys)
             before == SelectSeq(rest, LAMBDA x : gsPriority(c.gs[x]) > gsPriority(c.gs[k]))
             after == SelectSeq(rest, LAMBDA x : gsPriority(c.gs[x]) <= gsPriority(c.gs[k]))
         IN  before \o <<k>> \o after

\* get sortedGroupStates: the cache with the view computed; the view is
\* c.sorted.v, a sequence of keys.
sortedGroupStates(c) ==
    LET c1 == IF c.sorted.def THEN c
              ELSE [c EXCEPT !.sorted = [def |-> TRUE, v |-> SortByPriority(c, c.ref)]]
    IN  Expect(c1, Len(c1.ref) = Len(c1.sorted.v), "sortedGroupStates")

(***************************************************************************)
(* TextElementsRenderer: placement of one group.  A placement context p is *)
(* the record                                                              *)
(*   c         : the cache                                                 *)
(*   num       : renderParams.numRenderedTextElements                      *)
(*   fading    : renderParams.fadeAnimationRunning                         *)
(*   allocated : screen cells allocated in m_screenCollisions              *)
(*   loading   : textElement.loadingState of every element                 *)
(*   force     : m_forceNewLabelsPass                                      *)
(*   log       : the elements that reached placement, <<element, pass>>,   *)
(*               in the order they did                                     *)
(*   reads     : readings of PerformanceTimer.now() since placeStartTime   *)
(*   exceededAt: length of the log when the placement time limit was found *)
(*               exceeded, -1 if it was not                                *)
(*   added     : the elements handed to addPoiLabel, addLineMarkerLabel or *)
(*               addPathLabel (collision allocation and text buffers)      *)
(*   newPass   : placeNew, once placeTextElements has computed it          *)
(*   blocked   : the cells allocated when the placement starts             *)
(*   draw      : drawCount of the glyph storage of every layer             *)
(*   drawn     : the elements whose text was added to the text canvas      *)
(*   adds      : <<element, drawCount of its layer>> for every element     *)
(*               handed to addPoiLabel, addLineMarkerLabel or addPathLabel *)
(*   full      : the elements left out because their layer is full         *)
(*   small     : the path labels checkForSmallLabels has rejected          *)
(***************************************************************************)
PersistentLabels == "PersistentLabels"

NewLabels == "NewLabels"

\* addPointLabel(labelState, groupState, ..., iconIndex): [p, res].  `visited`
\* is groupState.visited.
addPointLabel(p, r, visited, iconIndex) ==
    LET e == r[1]
        textRenderState == p.c.es[r].text
        iconRenderState == p.c.es[r].icons[iconIndex]
        hasText == ElementText[e] # ""
        renderIcon == HasPoiInfo[e]
        \* the icon is prepared and on screen
        iconSpaceAvailable ==
            ~(renderIcon /\ visited) \/ IconBox[e][iconIndex] \cap p.allocated = {}
        iconRejected == renderIcon /\ visited /\ ~iconSpaceAvailable
                        /\ ~isVisible(iconRenderState)
        icon1 ==
            IF ~renderIcon THEN iconRenderState
            ELSE IF visited /\ ~iconSpaceAvailable
            THEN IF ~isFadingOut(iconRenderState)
                 THEN startFadeOut(iconRenderState) ELSE iconRenderState
            ELSE IF visited
            THEN IF \/ iconRenderState.last >= 2
                    \/ isFadingOut(iconRenderState)
                    \/ isFadedOut(iconRenderState)
                 THEN startFadeIn(iconRenderState) ELSE iconRenderState
            ELSE IF isVisible(iconRenderState)
            THEN [startFadeOut(iconRenderState) EXCEPT !.last = 0]
            ELSE iconRenderState
        text1 ==
            IF /\ renderIcon /\ visited /\ ~iconSpaceAvailable
               /\ ~isFadingOut(iconRenderState)
               /\ hasText /\ isVisible(textRenderState)
            THEN startFadeOut(textRenderState) ELSE textRenderState
        \* the text
        textIsFadingIn == isFadingIn(text1)
        textIsFadingOut == isFadingOut(text1)
        textSpaceAvailable == TextBox[e] \cap p.allocated = {}
        textVisible ==
            visited /\ (textSpaceAvailable \/ textIsFadingIn \/ textIsFadingOut)
        rendered == hasText /\ textVisible /\ ~isFadedOut(icon1)
        startsFadeIn == rendered /\ ~textIsFadingOut /\ textSpaceAvailable /\ iconSpaceAvailable
        hidden == hasText /\ ~textVisible
        textRejected == hidden /\ HasPoiInfo[e] /\ ~isVisible(icon1)
        text2 ==
            IF startsFadeIn THEN checkStartFadeIn(text1, TRUE)
            ELSE IF hidden /\ isVisible(text1) THEN checkStartFadeOut(text1)
            ELSE text1
        icon2 == IF hidden /\ HasPoiInfo[e] THEN startFadeOut(icon1) ELSE icon1
        renderIcon2 == renderIcon /\ ~hidden
        icon3 == IF renderIcon2 THEN checkStartFadeIn(icon2, FALSE) ELSE icon2
        allocated2 ==
            p.allocated
                \cup (IF hasText /\ textVisible /\ ~textIsFadingOut THEN TextBox[e] ELSE {})
                \cup (IF renderIcon2 THEN IconBox[e][iconIndex] ELSE {})
        fading2 ==
            \/ p.fading
            \/ rendered /\ (textIsFadingOut \/ isFading(text2))
            \/ hidden /\ isVisible(text1) /\ isFading(text2)
            \/ renderIcon2 /\ isFading(icon3)
    IN  IF iconRejected
        THEN \* the icon finds no space and is not visible: try again next time
             [p |-> p, res |-> FALSE]
        ELSE IF textRejected
        THEN [p |-> [p EXCEPT !.c.es[r].icons[iconIndex] = icon1, !.c.es[r].text = text1],
              res |-> FALSE]
        ELSE [p |-> [p EXCEPT !.c.es[r].icons[iconIndex] = icon3,
                              !.c.es[r].text = text2,
                              !.allocated = allocated2,
                              !.texts = IF hasText /\ textVisible /\ ~textIsFadingOut
                                        THEN @ \cup {e} ELSE @,
                              !.fading = fading2,
                              !.draw[RenderOrder[e]] = IF rendered THEN @ + GlyphCount[e] ELSE @,
                              !.drawn = IF rendered THEN @ \cup {e} ELSE @,
                              !.num = @ + 1],
              res |-> TRUE]

\* addPoiLabel: the anchor is on screen; the label has one icon render state.
addPoiLabel(p, r, visited) == addPointLabel(p, r, visited, 1).p

\* addLineMarkerLabel (markers without shield group): one point label per
\* anchor point of the path that is on screen.
RECURSIVE addLineMarkerLabel(_, _, _, _)
addLineMarkerLabel(p, r, visited, pointIndex) ==
    IF pointIndex > ElementPoints[r[1]] THEN p
    ELSE addLineMarkerLabel(addPointLabel(p, r, visited, pointIndex).p, r, visited,
                            pointIndex + 1)

\* ScreenCollisions.isVisible(box) and isAllocated(box)
boxIsVisible(box) == box \cap ScreenCells # {}

boxIsAllocated(allocated, box) == box \cap allocated # {}

\* A check of the characters that is content with one character that fits.
SomeCharacterFits(allocated, e) ==
    \E i \in DOMAIN CharBoxes[e] :
        ~(\/ ~boxIsVisible(CharBoxes[e][i])
          \/ (~TextMayOverlap[e] /\ boxIsAllocated(allocated, CharBoxes[e][i])))

\* The per-character collision checks of addPathLabel (lines 2027-2042): no
\* character makes the label return.
AllCharactersFit(allocated, e) ==
    \A i \in DOMAIN CharBoxes[e] :
        ~(\/ ~boxIsVisible(CharBoxes[e][i])
          \/ (~TextMayOverlap[e] /\ boxIsAllocated(allocated, CharBoxes[e][i])))

\* addPathLabel; the label is within its distance limits and its measurement
\* succeeds.
addPathLabel(p, r, visited) ==
    LET e == r[1]
        textRenderState == p.c.es[r].text
        t1 == IF isUndefined(textRenderState) \/ textRenderState.last >= 2
              THEN startFadeIn(textRenderState) ELSE textRenderState
        t2 == checkStartFadeIn(t1, FALSE)
    IN  IF ~visited THEN [p EXCEPT !.c.es[r] = esReset(@)]
        ELSE IF ~AllCharactersFit(p.allocated, e) THEN p
        ELSE [p EXCEPT !.c.es[r].text = t2,
                       !.fading = @ \/ isFading(t2),
                       !.draw[RenderOrder[e]] = @ + GlyphCount[e],
                       !.drawn = @ \cup {e},
                       !.allocated = @ \cup TextBox[e],
                       !.texts = @ \cup {e},
                       !.num = @ + 1]

\* A check that lets every path label through.
anyPathLabel(e) == TRUE

\* checkForSmallLabels(textElement, screenPoints): some point of the path is
\* on screen; the paths of the scene are long enough for their texts.
checkForSmallLabels(e) == PointsOnScreen[e] > 0

\* A layer that always has room.
LayerHasRoom(draw, layer, glyphs) == FALSE

\* The glyph storage of the layer cannot take the glyphs (lines 777-785 and
\* 1333-1338).
LayerIsFull(draw, layer, glyphs) == draw[layer] + glyphs > LayerCapacity[layer]

\* An element is let through to placement whatever its loadingState.
IsAnyState(state) == TRUE

\* The test that lets an element go on to placement (line 770 for the
\* elements of the tiles, line 1329 for the overlay).
IsInitialized(state) == state = "Initialized"

\* Glyph loading that requests the glyphs of every element that is not
\* loaded, whatever its state and text.
RequestGlyphs(state, e) ==
    IF state = "Loaded" THEN "Initialized"
    ELSE IF state = "Initialized" THEN state
    ELSE "Requested"

\* The glyph loading steps of placeTextElementGroup for one element: the new
\* loadingState.
LoadGlyphs(state, e) ==
    LET requested == IF state # "undefined" THEN state
                     ELSE IF ElementText[e] = "" THEN "Loaded" ELSE "Requested"
    IN  IF requested = "Loaded" THEN "Initialized" ELSE requested

\* A placement that takes every group as visited.
addLabelAsVisited(p, r, visited) ==
    IF ElementType[r[1]] = "PoiLabel" THEN addPoiLabel(p, r, TRUE)
    ELSE IF ElementType[r[1]] = "LineMarker" THEN addLineMarkerLabel(p, r, TRUE, 1)
    ELSE addPathLabel(p, r, TRUE)

\* The placement of an element of any type, once its glyphs are there.
addLabel(p, r, visited) ==
    IF ElementType[r[1]] = "PoiLabel" THEN addPoiLabel(p, r, visited)
    ELSE IF ElementType[r[1]] = "LineMarker" THEN addLineMarkerLabel(p, r, visited, 1)
    ELSE addPathLabel(p, r, visited)

\* A test that lets an initialized state through without a view distance.
isUninitialized(textElementState) == ~textElementState.init

\* The states placeTextElementGroup skips in both passes (lines 651-664): not
\* initialized, or without a view distance.
isUnready(textElementState) == ~textElementState.init \/ ~textElementState.dist

\* placeTextElementGroup(groupState, renderParams, maxNumPlacedLabels, pass)
\* from the i-th element state on: [p, res].
RECURSIVE placeTextElementGroup(_, _, _, _, _)
placeTextElementGroup(p, key, i, maxNumPlacedLabels, pass) ==
    LET groupState == p.c.gs[key]
        refs == textElementStates(groupState)
        limited == maxNumPlacedLabels >= 0 /\ p.num >= maxNumPlacedLabels
        r == refs[i]
        e == r[1]
        textElementState == p.c.es[r]
        elementVisible == esVisible(textElementState)
        skipped == \/ isUnready(textElementState)
                   \/ (pass = PersistentLabels /\ ~elementVisible)
                   \/ (pass = NewLabels /\ elementVisible)
        logged == [p EXCEPT !.log = Append(@, <<e, pass>>)]
        tooSmall == ElementType[e] = "PathLabel" /\ ~checkForSmallLabels(e)
        p1 == [logged EXCEPT !.loading[e] = LoadGlyphs(@, e)]
        p2 == IF ~IsInitialized(p1.loading[e]) THEN p1
              ELSE IF LayerIsFull(p1.draw, RenderOrder[e], GlyphCount[e])
              THEN [p1 EXCEPT !.full = @ \cup {e}]
              ELSE addLabel([p1 EXCEPT !.added = @ \cup {e},
                                       !.adds = Append(@, <<e, p1.draw[RenderOrder[e]]>>)],
                            r, groupState.visited)
    IN  IF i > Len(refs)
        THEN \* the further elements of the group are not initialized
             [p |-> p, res |-> ~(GroupPad[groupState.group] > 0 /\ limited)]
        ELSE IF limited THEN [p |-> p, res |-> FALSE]
        ELSE IF skipped THEN placeTextElementGroup(p, key, i + 1, maxNumPlacedLabels, pass)
        ELSE IF tooSmall
        THEN placeTextElementGroup([logged EXCEPT !.c.es[r] = esReset(@),
                                                  !.small = @ \cup {e}],
                                   key, i + 1, maxNumPlacedLabels, pass)
        ELSE placeTextElementGroup(p2, key, i + 1, maxNumPlacedLabels, pass)

(***************************************************************************)
(* TextElementsRenderer: the placement phase of a frame.  Between two      *)
(* readings of the clock `tick` milliseconds pass.                         *)
(***************************************************************************)
NewPlacement(c, loading, force, allocated) ==
    [c |-> c, num |-> 0, fading |-> FALSE, allocated |-> allocated, loading |-> loading,
     force |-> force, log |-> <<>>, reads |-> 0, exceededAt |-> -1, added |-> {},
     newPass |-> FALSE, blocked |-> allocated, texts |-> {},
     draw |-> [layer \in Layers |-> 0],
     drawn |-> {}, adds |-> <<>>, full |-> {}, small |-> {}]

\* A reset that keeps the allocations.
resetNothing(allocated) == allocated

\* reset(): m_screenCollisions.reset(); the text canvases are cleared, which
\* is why a placement context starts with empty layers.
reset(allocated) == {}

\* The screen cells of the lines of a blocking element.
BlockingCells(points) ==
    IF Len(points) < 2 THEN {}
    ELSE UNION {{points[i - 1], points[i]} : i \in 2..Len(points)}

\* prepopulateScreenWithBlockingElements(dataSourceTileList)
prepopulateScreenWithBlockingElements(allocated, tiles) ==
    allocated \cup UNION {UNION {BlockingCells(TileBlocking[t][i]) :
                                    i \in DOMAIN TileBlocking[t]} : t \in tiles}

\* isPlacementTimeExceeded(startTime): [p, res]; `timed` says that startTime
\* is defined.
isPlacementTimeExceeded(p, timed, tick) ==
    LET elapsedTime == (p.reads + 1) * tick
        exceeded == elapsedTime > OVERLOAD_PLACE_TIME_LIMIT
    IN  IF ~timed \/ OVERLOAD_PLACE_TIME_LIMIT <= 0 THEN [p |-> p, res |-> FALSE]
        ELSE [p |-> [p EXCEPT !.reads = @ + 1,
                              !.exceededAt = IF exceeded THEN Len(p.log) ELSE @],
              res |-> exceeded]

\* placeNewTextElements(beginGroupIndex, endGroupIndex, renderParams); the
\* indices are 1-based, endGroupIndex is exclusive.
RECURSIVE placeNewTextElements(_, _, _, _, _)
newGroupPlaced(placed, groupStates, beginGroupIndex, endGroupIndex, maxNumVisibleLabels) ==
    IF ~placed.res THEN placed.p
    ELSE placeNewTextElements(placed.p, groupStates, beginGroupIndex + 1, endGroupIndex,
                              maxNumVisibleLabels)

placeNewTextElements(p, groupStates, beginGroupIndex, endGroupIndex, maxNumVisibleLabels) ==
    IF beginGroupIndex >= endGroupIndex THEN p
    ELSE newGroupPlaced(placeTextElementGroup(p, groupStates[beginGroupIndex], 1,
                                              maxNumVisibleLabels, NewLabels),
                        groupStates, beginGroupIndex, endGroupIndex, maxNumVisibleLabels)

\* The loop of placeTextElements over the sorted group states from index i:
\* [p, begin], the placement context and the value of currentPriorityBegin
\* when the loop is left.
LoopLeft(p, currentPriorityBegin) == [p |-> p, begin |-> currentPriorityBegin]

RECURSIVE placeLoop(_, _, _, _, _, _, _, _, _)
\* after the time check that follows the persistent pass of group i
persistentChecked(t, groupStates, i, currentPriorityBegin, placeNew, timed, tick, maxNumVisibleLabels) ==
    IF t.res THEN LoopLeft(t.p, currentPriorityBegin)
    ELSE placeLoop(t.p, groupStates, i + 1, gsPriority(t.p.c.gs[groupStates[i]]),
                   currentPriorityBegin, placeNew, timed, tick, maxNumVisibleLabels)

\* after the persistent pass of group i
persistentPlaced(placed, groupStates, i, currentPriorityBegin, placeNew, timed, tick, maxNumVisibleLabels) ==
    IF ~placed.res THEN LoopLeft(placed.p, currentPriorityBegin)
    ELSE persistentChecked(isPlacementTimeExceeded(placed.p, timed, tick), groupStates, i,
                           currentPriorityBegin, placeNew, timed, tick, maxNumVisibleLabels)

\* the persistent pass of group i
placePersistent(p, groupStates, i, currentPriorityBegin, placeNew, timed, tick, maxNumVisibleLabels) ==
    persistentPlaced(placeTextElementGroup(p, groupStates[i], 1, maxNumVisibleLabels,
                                           PersistentLabels),
                     groupStates, i, currentPriorityBegin, placeNew, timed, tick,
                     maxNumVisibleLabels)

\* after the time check that follows the new pass of the previous priority
newChecked(t, groupStates, i, currentPriorityBegin, placeNew, timed, tick, maxNumVisibleLabels) ==
    IF t.res THEN LoopLeft(t.p, currentPriorityBegin)
    ELSE placePersistent(t.p, groupStates, i, i, placeNew, timed, tick, maxNumVisibleLabels)

placeLoop(p, groupStates, i, currentPriority, currentPriorityBegin, placeNew, timed, tick, maxNumVisibleLabels) ==
    IF i > Len(groupStates) THEN LoopLeft(p, currentPriorityBegin)
    ELSE IF placeNew /\ currentPriority # gsPriority(p.c.gs[groupStates[i]])
    THEN newChecked(isPlacementTimeExceeded(
                        placeNewTextElements(p, groupStates, currentPriorityBegin, i,
                                             maxNumVisibleLabels),
                        timed, tick),
                    groupStates, i, currentPriorityBegin, placeNew, timed, tick,
                    maxNumVisibleLabels)
    ELSE placePersistent(p, groupStates, i, currentPriorityBegin, placeNew, timed, tick,
                         maxNumVisibleLabels)

\* The code of placeTextElements that follows the loop: the new labels from
\* currentPriorityBegin to the end are placed.
PlaceRemainingNewLabels(left, groupStates, placeNew, maxNumVisibleLabels) ==
    IF placeNew
    THEN placeNewTextElements(left.p, groupStates, left.begin, Len(groupStates) + 1,
                              maxNumVisibleLabels)
    ELSE left.p

\* placeTextElements from the reading of sortedGroupStates on; p0 is the
\* context with m_forceNewLabelsPass cleared.
placeSorted(p0, placeNew, timed, tick, maxNumVisibleLabels) ==
    PlaceRemainingNewLabels(
        placeLoop(p0, p0.c.sorted.v, 1, gsPriority(p0.c.gs[p0.c.sorted.v[1]]), 1, placeNew,
                  timed, tick, maxNumVisibleLabels),
        p0.c.sorted.v, placeNew, maxNumVisibleLabels)

\* A new-label pass that only an update of the text elements brings about.
PlaceNewIfUpdated(forceNewLabelsPass, placeNewLabels) == placeNewLabels

\* placeNew (line 1179)
PlaceNew(forceNewLabelsPass, placeNewLabels) == forceNewLabelsPass \/ placeNewLabels

\* placeTextElements(time, placeNewTextElements); `timed` says that
\* placeStartTime is defined (overloaded and dynamic).
placeTextElements(p, placeNewLabels, timed, tick, maxNumVisibleLabels) ==
    IF Len(p.c.ref) = 0 THEN p
    ELSE placeSorted([p EXCEPT !.force = FALSE, !.c = sortedGroupStates(p.c),
                               !.newPass = PlaceNew(p.force, placeNewLabels)],
                     PlaceNew(p.force, placeNewLabels), timed, tick, maxNumVisibleLabels)

(***************************************************************************)
(* TextElementsRenderer: the update phase of a frame.                      *)
(***************************************************************************)
\* The tiles of `tiles` sorted by Morton code.
RECURSIVE SortedTiles(_)
SortedTiles(tiles) ==
    IF tiles = {} THEN <<>>
    ELSE LET t == CHOOSE x \in tiles : \A y \in tiles : x <= y
         IN  <<t>> \o SortedTiles(tiles \ {t})

RECURSIVE TileGroupList(_)
TileGroupList(sortedTiles) ==
    IF sortedTiles = <<>> THEN <<>>
    ELSE TileGroups[Head(sortedTiles)] \o TileGroupList(Tail(sortedTiles))

\* createSortedGroupsForSorting: the groups of the tiles, collected by
\* priority, in descending order of priority.
RECURSIVE createSortedGroupsForSorting(_)
createSortedGroupsForSorting(groups) ==
    IF groups = <<>> THEN <<>>
    ELSE LET top == CHOOSE g \in Range(groups) :
                        \A h \in Range(groups) : GroupPriority[g] >= GroupPriority[h]
             same(g) == GroupPriority[g] = GroupPriority[top]
             other(g) == ~same(g)
         IN  <<SelectSeq(groups, same)>> \o createSortedGroupsForSorting(SelectSeq(groups, other))

\* TextElementLists.count()
RECURSIVE count(_)
count(lists) == IF lists = <<>> THEN 0 ELSE GroupLength(Head(lists)) + count(Tail(lists))

\* A scene that counts as overloaded from the limit on.
IsOverloadedFrom(numTextElementsInScene) == numTextElementsInScene >= OVERLOAD_LABEL_LIMIT

\* newOverloaded of checkIfOverloaded
IsOverloaded(numTextElementsInScene) == numTextElementsInScene > OVERLOAD_LABEL_LIMIT

\* checkIfOverloaded: the tiles of the scene have no user text elements.
checkIfOverloaded(tiles) == IsOverloaded(count(TileGroupList(SortedTiles(tiles))))

\* selectTextElementsToUpdateByDistance: prepareTextElementGroup for every
\* group of the list; all elements pass checkReadyForPlacement.
RECURSIVE selectTextElementsToUpdateByDistance(_, _)
selectTextElementsToUpdateByDistance(c, lists) ==
    IF lists = <<>> THEN c
    ELSE selectTextElementsToUpdateByDistance(getOrSet(c, Head(lists), Elements).c, Tail(lists))

\* An update phase without a limit of updated labels.
UpdatedLabelLimitOff(numTextElementsUpdated) == FALSE

\* The test of the number of updated labels in updateTextElementsFromSource.
UpdatedLabelLimitReached(numTextElementsUpdated) ==
    numTextElementsUpdated >= OVERLOAD_UPDATED_LABEL_LIMIT

\* Budget checks that are made whether or not a start time was taken.
updateBudgetUntimed(u, c1, i, lists, timed, tick) ==
    LET elapsedTime == (u.reads + 1) * tick
        numTextElementsUpdated == u.numTextElementsUpdated + count(lists)
    IN  IF OVERLOAD_UPDATE_TIME_LIMIT > 0 /\ elapsedTime > OVERLOAD_UPDATE_TIME_LIMIT
        THEN [u |-> [u EXCEPT !.c = c1, !.done = i, !.reads = @ + 1], stop |-> TRUE]
        ELSE [u |-> [c |-> c1, done |-> i, reads |-> u.reads + 1,
                     numTextElementsUpdated |-> numTextElementsUpdated],
              stop |-> UpdatedLabelLimitReached(numTextElementsUpdated)]

\* The budget checks of updateTextElementsFromSource's loop after the lists
\* of index i were updated, leaving the cache c1: [u, stop].
\* u = [c, done, reads, numTextElementsUpdated], done being the lists updated.
updateBudget(u, c1, i, lists, timed, tick) ==
    LET elapsedTime == (u.reads + 1) * tick
        numTextElementsUpdated == u.numTextElementsUpdated + count(lists)
    IN  IF ~timed
        THEN [u |-> [u EXCEPT !.c = c1, !.done = i], stop |-> FALSE]
        ELSE IF OVERLOAD_UPDATE_TIME_LIMIT > 0 /\ elapsedTime > OVERLOAD_UPDATE_TIME_LIMIT
        THEN [u |-> [u EXCEPT !.c = c1, !.done = i, !.reads = @ + 1], stop |-> TRUE]
        ELSE [u |-> [c |-> c1, done |-> i, reads |-> u.reads + 1,
                     numTextElementsUpdated |-> numTextElementsUpdated],
              stop |-> UpdatedLabelLimitReached(numTextElementsUpdated)]

\* The loop of updateTextElementsFromSource over sortedGroups from index i.
RECURSIVE updateTextElementsFromSource(_, _, _, _, _)
updateChecked(b, sortedGroups, i, timed, tick) ==
    IF b.stop THEN b.u
    ELSE updateTextElementsFromSource(b.u, sortedGroups, i + 1, timed, tick)

updateTextElementsFromSource(u, sortedGroups, i, timed, tick) ==
    IF i > Len(sortedGroups) THEN u
    ELSE updateChecked(
             updateBudget(u, selectTextElementsToUpdateByDistance(u.c, sortedGroups[i]), i,
                          sortedGroups[i], timed, tick),
             sortedGroups, i, timed, tick)

\* What the update phase leaves: [c, derived]; derived is the set of groups
\* passed to getOrSet.
Derived(u, sortedGroups) ==
    [c |-> u.c, derived |-> UNION {Range(sortedGroups[i]) : i \in 1..u.done}]

updateSorted(c, sortedGroups, timed, tick) ==
    Derived(updateTextElementsFromSource(
                [c |-> c, done |-> 0, reads |-> 0, numTextElementsUpdated |-> 0],
                sortedGroups, 1, timed, tick),
            sortedGroups)

\* tileKey.mortonCode(): the tiles are numbered by their Morton codes.
mortonCode(t) == t

\* The place of tile t in the sorted array `sorted`, after the tiles that
\* the comparison of line 991 does not put behind it.
RECURSIVE insertTile(_, _)
insertTile(sorted, t) ==
    IF sorted = <<>> THEN <<t>>
    ELSE IF mortonCode(t) - mortonCode(Head(sorted)) < 0 THEN <<t>> \o sorted
    ELSE <<Head(sorted)>> \o insertTile(Tail(sorted), t)

\* An array of tiles that is left in the order it came in.
keepTileOrder(visibleTiles) == visibleTiles

\* sortedTiles.sort(...) of updateTextElementsFromSource (lines 987-992)
RECURSIVE sortTiles(_)
sortTiles(visibleTiles) ==
    IF visibleTiles = <<>> THEN <<>>
    ELSE insertTile(sortTiles(SubSeq(visibleTiles, 1, Len(visibleTiles) - 1)),
                    visibleTiles[Len(visibleTiles)])

\* updateTextElements for one data source whose rendered tiles come as the
\* array visibleTiles: [c, derived]
updateTextElementsFromTiles(c, visibleTiles, isDynamic, tick) ==
    updateSorted(c, createSortedGroupsForSorting(TileGroupList(sortTiles(visibleTiles))),
                 checkIfOverloaded(Range(visibleTiles)) /\ isDynamic, tick)

\* updateTextElements(dataSourceTileList, projection): [c, derived]
updateTextElements(c, tiles, isDynamic, tick) ==
    updateSorted(c, createSortedGroupsForSorting(TileGroupList(SortedTiles(tiles))),
                 checkIfOverloaded(tiles) /\ isDynamic, tick)

(***************************************************************************)
(* State.                                                                  *)
(***************************************************************************)
VARIABLES
    cache,                 \* the TextElementStateCache with the element states it refers to
    lastOp,                \* the last cache operation and what it returned
    m_initState,           \* TextElementsRenderer.m_initState
    m_overloaded,          \* TextElementsRenderer.m_overloaded
    m_cacheInvalidated,    \* TextElementsRenderer.m_cacheInvalidated
    m_forceNewLabelsPass,  \* TextElementsRenderer.m_forceNewLabelsPass
    m_options,             \* TextElementsRenderer.m_options
    loadingState,          \* textElement.loadingState of every element
    renderedTiles,         \* the tiles rendered in the previous frame
    m_screenCollisions,    \* the cells allocated in the screen collisions index
    textElementsChanged,   \* the tiles whose textElementsChanged flag is set
    overlay,               \* loadingState of the overlay text element, "none" without one
    frame                  \* what the last placeText call did

rendererVars ==
    <<m_initState, m_overloaded, m_cacheInvalidated, m_forceNewLabelsPass, m_options,
      loadingState, renderedTiles, m_screenCollisions, textElementsChanged, overlay, frame>>

vars == <<cache, lastOp, rendererVars>>

CachedKeys(c) == Range(c.ref)

VisitedKeys(c) == {g \in CachedKeys(c) : c.gs[g].visited}

\* The element states of the cached group states.
CachedRefs(c) == UNION {Range(textElementStates(c.gs[g])) : g \in CachedKeys(c)}

\* A fade is running: only then does the time passed matter to an update.
AnyFading(c) ==
    \E r \in Refs : \/ isFading(c.es[r].text)
                     \/ \E i \in DOMAIN c.es[r].icons : isFading(c.es[r].icons[i])

NoOp == [op |-> "none"]

\* What is recorded of the placeText call that has just returned (NoFrame
\* once anything else has happened since):
\*   called        : placeText was called
\*   ran           : the call got past initialize()
\*   tiles         : the rendered tiles of the call
\*   invalidated, changed, moved : m_cacheInvalidated, tileTextElementsChanged
\*                   and renderedTilesChanged when updateTextElements was
\*                   computed
\*   updated       : updateTextElements was true
\*   timed, tick   : updateStartTime was defined in the update phase, and the
\*                   pace of the clock in it
\*   derived       : the groups passed to getOrSet in the call
\*   skipped       : the groups of the rendered tiles the update phase did not
\*                   reach
\*   untouched     : the update phase left the states of the cached groups it
\*                   did not derive as they were
\*   survivors     : the twin point labels 1 and 2 for which the filter of the
\*                   update cycle returned a view distance
\*   visitedBefore : the visited groups when the call started
\*   visitedAfter  : the visited groups when it returned
\*   anyEviction   : what cache.update returned
\*   evicted       : the groups cache.update removed
\*   unneeded      : the cached groups that were in no tile of the previous
\*                   frame and that cache.update found not visible
\*   forceBefore   : m_forceNewLabelsPass when the call started
\*   loadedBefore  : the elements whose glyph load had completed since they
\*                   were last attempted
\*   newPass       : placeNew of placeTextElements
\*   placeTimed    : placeStartTime of placeTextElements was defined (the
\*                   renderer overloaded and the view dynamic)
\*   placeable     : the elements placeTextElementGroup lets through in one of
\*                   the passes (initialized, with a view distance) when
\*                   placeTextElements started
\*   persistent    : those of them that were visible
\*   log, exceededAt, num, added : as in the placement context
\*   unplaced      : the elements a pass of the frame would have attempted had
\*                   the placement time limit not been exceeded
\*   skippedBefore, unplacedBefore : skipped and unplaced of the call before,
\*                   if that was the last thing to happen
\*   overlayPlaced : the overlay text element was added to its text canvas
NoFrame ==
    [called |-> FALSE, ran |-> FALSE, tiles |-> {},
     invalidated |-> FALSE, changed |-> FALSE, moved |-> FALSE,
     updated |-> FALSE, timed |-> FALSE, placeTimed |-> FALSE, tick |-> 0,
     derived |-> {}, skipped |-> {}, untouched |-> TRUE, survivors |-> {},
     visitedBefore |-> {}, visitedAfter |-> {}, anyEviction |-> FALSE, evicted |-> {},
     unneeded |-> {}, forceBefore |-> FALSE, loadedBefore |-> {}, newPass |-> FALSE,
     placeable |-> {}, persistent |-> {}, log |-> <<>>, exceededAt |-> -1, num |-> 0,
     added |-> {}, unplaced |-> {}, skippedBefore |-> {}, unplacedBefore |-> {},
     overlayPlaced |-> FALSE, disableFading |-> FALSE, collisionsBefore |-> {},
     blocked |-> {}, allocated |-> {}, texts |-> {}, draw |-> [layer \in Layers |-> 0],
     drawn |-> {},
     adds |-> <<>>, full |-> {}, small |-> {}]

\* A placeText call that returned at initialize().
NotInitializedFrame(tiles) == [NoFrame EXCEPT !.called = TRUE, !.tiles = tiles]

\* The values m_options.maxNumVisibleLabels takes.
LabelLimits == {1, 4}

TextOptions == [maxNumVisibleLabels : LabelLimits, disableFading : {FALSE}]

\* Milliseconds that pass between two readings of the clock, in the update
\* phase and in the placement phase.
UpdateTicks == {0, 6}

PlaceTicks == {0, 6, 11}

\* The sets of tiles a frame renders.
Views == {{1, 2}, {2}}

\* The renderer as constructed.
RendererInit ==
    /\ m_initState = "Uninitialized"
    /\ m_overloaded = FALSE
    /\ m_cacheInvalidated = FALSE
    /\ m_forceNewLabelsPass = FALSE
    /\ loadingState = [e \in Elements |-> "undefined"]
    /\ renderedTiles = {}
    /\ m_screenCollisions = {}
    /\ textElementsChanged = Tiles
    /\ overlay = "none"
    /\ frame = NoFrame

OtherOp == [op |-> "other"]

(***************************************************************************)
(* The cache used through its public methods, in any order, by a caller    *)
(* that starts fades on the element states it borrows.                     *)
(***************************************************************************)
\* The groups the caller of the cache works with.
CacheGroups == {1, 2}

\* The caller's filter lets every element pass checkReadyForPlacement.
CacheReady == Elements

\* The caller's state after getOrSet(g, filter) has returned res.
GetOrSetReturned(g, res) ==
    /\ cache' = Settle(res.c)
    /\ lastOp' = [op |-> "getOrSet", key |-> g, wasCached |-> res.wasCached,
                  again |-> lastOp.op = "getOrSet" /\ lastOp.key = g,
                  same |-> res.state.gen = cache.gs[g].gen
                           /\ res.state.group = cache.gs[g].group,
                  afterClear |-> lastOp.op = "clear",
                  cleared |-> IF lastOp.op = "clear" THEN lastOp.candidates ELSE {},
                  grown |-> Len(res.c.ref) - Len(cache.ref),
                  created |-> Cardinality(LiveRefs(res.c) \ LiveRefs(cache))]

CacheGetOrSet(g) ==
    /\ get(cache, g).found \/ FreeGen(cache, StateGroup(g)) # 0
    /\ GetOrSetReturned(g, getOrSet(Enter(cache), g, CacheReady))
    /\ UNCHANGED rendererVars

\* The caller's state after update(...) has returned res.
UpdateReturned(res) ==
    /\ cache' = Settle(res.c)
    /\ lastOp' = [op |-> "update",
                  evicted |-> CachedKeys(cache) \ CachedKeys(res.c),
                  unneeded |-> {g \in CachedKeys(cache) :
                                  g \notin res.visible /\ ~cache.gs[g].visited}]

CacheUpdate(dt, disableFading, findReplacements) ==
    /\ cache.ref # <<>>
    /\ dt = 0 \/ (~disableFading /\ AnyFading(cache))
    /\ UpdateReturned(update(Enter(cache), dt, disableFading, findReplacements))
    /\ UNCHANGED rendererVars

CacheClearVisited ==
    /\ VisitedKeys(cache) # {}
    /\ cache' = clearVisited(Enter(cache))
    /\ lastOp' = OtherOp
    /\ UNCHANGED rendererVars

CacheClearTextCache ==
    /\ \E t \in Texts : cache.tm[t] # <<>>
    /\ cache' = Settle(clearTextCache(Enter(cache)))
    /\ lastOp' = OtherOp
    /\ UNCHANGED rendererVars

\* The elements whose states the text index of c refers to.
IndexedElements(c) == {r[1] : r \in UNION {Range(c.tm[t]) : t \in Texts}}

CacheClear ==
    /\ cache.ref # <<>>
    /\ cache' = Settle(clear(Enter(cache)))
    /\ lastOp' = [op |-> "clear", groups |-> CachedKeys(cache),
                  candidates |-> IndexedElements(cache)]
    /\ UNCHANGED rendererVars

IsCachedRef(c, r) ==
    \E g \in CachedKeys(c) : r \in Range(textElementStates(c.gs[g]))

\* The caller starts a fade of the text of a cached, initialized point label.
CacheFadeIn(r) ==
    /\ IsCachedRef(cache, r)
    /\ ElementType[r[1]] = "PoiLabel"
    /\ cache.es[r].init
    /\ cache.es[r].text.state \notin {"FadingIn", "FadedIn"}
    /\ cache' = [cache EXCEPT !.es[r].text = startFadeIn(@)]
    /\ lastOp' = OtherOp
    /\ UNCHANGED rendererVars

CacheFadeOut(r) ==
    /\ IsCachedRef(cache, r)
    /\ cache.es[r].init
    /\ isVisible(cache.es[r].text) /\ ~isFadingOut(cache.es[r].text)
    /\ cache' = [cache EXCEPT !.es[r].text = startFadeOut(@)]
    /\ lastOp' = OtherOp
    /\ UNCHANGED rendererVars

CacheInit ==
    /\ cache = EmptyCache
    /\ lastOp = NoOp
    /\ RendererInit
    /\ m_options = [maxNumVisibleLabels |-> 4, disableFading |-> FALSE]

CacheNext ==
    \/ \E g \in CacheGroups : CacheGetOrSet(g)
    \/ \E dt \in 0..MaxDt, disableFading \in BOOLEAN, findReplacements \in BOOLEAN :
           CacheUpdate(dt, disableFading, findReplacements)
    \/ CacheClearVisited
    \/ CacheClearTextCache
    \/ CacheClear
    \/ \E r \in Refs : CacheFadeIn(r)
    \/ \E r \in Refs : CacheFadeOut(r)

SpecCache == CacheInit /\ [][CacheNext]_vars

(***************************************************************************)
(* The cache with a caller that also deduplicates the element states it    *)
(* holds, one call of deduplicateElement at a time.                        *)
(***************************************************************************)
\* The caller's state after deduplicateElement(elementState) has returned dd
\* for the element state r; `before` is the cache the call found.
DeduplicateReturned(r, before, dd) ==
    /\ cache' = Settle(dd.c)
    /\ lastOp' = [op |-> "deduplicateElement", ref |-> r, res |-> dd.res,
                  before |-> before, after |-> dd.c]

CacheDeduplicate(r) ==
    /\ IsCachedRef(cache, r)
    /\ DeduplicateReturned(r, Enter(cache), deduplicateElement(Enter(cache), r))
    /\ UNCHANGED rendererVars

\* No time passes between the calls: a fade that has started stays where it
\* is, and an update only evicts.
DedupNext ==
    \/ \E g \in CacheGroups : CacheGetOrSet(g)
    \/ CacheUpdate(0, FALSE, FALSE)
    \/ CacheClearVisited
    \/ CacheClearTextCache
    \/ \E r \in Refs : CacheFadeIn(r)
    \/ \E r \in Refs : CacheDeduplicate(r)

SpecDedup == CacheInit /\ [][DedupNext]_vars

(***************************************************************************)
(* The cache with a caller whose updates look for replacements.            *)
(***************************************************************************)
\* The caller's state after update(time, disableFading, true) has returned
\* res; `after` is the cache as the call left it.
ReplacingUpdateReturned(dt, res) ==
    /\ cache' = Settle(res.c)
    /\ lastOp' = [op |-> "update",
                  evicted |-> CachedKeys(cache) \ CachedKeys(res.c),
                  unneeded |-> {g \in CachedKeys(cache) :
                                  g \notin res.visible /\ ~cache.gs[g].visited},
                  dt |-> dt, after |-> res.c]

CacheUpdateReplacing(dt) ==
    /\ cache.ref # <<>>
    /\ dt = 0 \/ AnyFading(cache)
    /\ ReplacingUpdateReturned(dt, update(Enter(cache), dt, FALSE, TRUE))
    /\ UNCHANGED rendererVars

ReplaceNext ==
    \/ \E g \in CacheGroups : CacheGetOrSet(g)
    \/ \E dt \in 0..MaxDt : CacheUpdateReplacing(dt)
    \/ CacheClearVisited
    \/ CacheClearTextCache
    \/ \E r \in Refs : CacheFadeIn(r)
    \/ \E r \in Refs : CacheFadeOut(r)

SpecReplace == CacheInit /\ [][ReplaceNext]_vars

(***************************************************************************)
(* The cache with a caller that reads the priority-sorted view.            *)
(***************************************************************************)
\* The groups this caller works with: two of priority 5 and one of priority 3.
SortedGroups == {1, 2, 3}

\* The caller reads sortedGroupStates.
CacheSortedGroupStates ==
    /\ cache' = sortedGroupStates(Enter(cache))
    /\ lastOp' = [op |-> "sortedGroupStates",
                  view |-> sortedGroupStates(Enter(cache)).sorted.v]
    /\ UNCHANGED rendererVars

SortedNext ==
    \/ \E g \in SortedGroups : CacheGetOrSet(g)
    \/ CacheUpdate(0, FALSE, FALSE)
    \/ CacheClearVisited
    \/ CacheClear
    \/ CacheSortedGroupStates

SpecSorted == CacheInit /\ [][SortedNext]_vars

(***************************************************************************)
(* The renderer: placeText once per frame, with the asynchronous events    *)
(* between frames.                                                         *)
(***************************************************************************)
\* The view's frame number advances: every render state gets one frame older.
NextFrame(c) == [c EXCEPT !.es = [r \in Refs |-> esNextFrame(c.es[r])]]

TilesGroups(tiles) == Range(TileGroupList(SortedTiles(tiles)))

\* The elements of the cached groups that placeTextElementGroup lets through
\* to a pass, and those it lets through to the persistent pass.
PlaceableElements(c) ==
    {r[1] : r \in {x \in CachedRefs(c) : c.es[x].init /\ c.es[x].dist}}

PersistentElements(c) ==
    {r[1] : r \in {x \in CachedRefs(c) : c.es[x].init /\ c.es[x].dist /\ esVisible(c.es[x])}}

\* The elements attempted in the frame with the log `log`.
Attempted(log) == {log[k][1] : k \in DOMAIN log}

\* The group states and element states of the groups `keys` are the same in
\* the caches c1 and c2.
SameStates(c1, c2, keys) ==
    \A g \in keys :
        /\ c1.gs[g] = c2.gs[g]
        /\ \A r \in Range(textElementStates(c1.gs[g])) : c1.es[r] = c2.es[r]

\* The glyph loading steps of placeOverlayTextElements for the overlay text
\* element (its text is not empty): the new loadingState.
LoadOverlayGlyphs(state) ==
    IF state = "undefined" THEN "Requested"
    ELSE IF state = "Loaded" THEN "Initialized"
    ELSE state

\* An overlay that is left out once the placement time limit was exceeded.
placeOverlayWithinBudget(p, state) ==
    IF state = "none" THEN [p |-> p, overlay |-> state, placed |-> FALSE]
    ELSE IF ~IsInitialized(LoadOverlayGlyphs(state)) \/ p.exceededAt >= 0
    THEN [p |-> p, overlay |-> LoadOverlayGlyphs(state), placed |-> FALSE]
    ELSE [p |-> [p EXCEPT !.draw[Overlay.renderOrder] = @ + Overlay.glyphs],
          overlay |-> LoadOverlayGlyphs(state), placed |-> TRUE]

\* placeOverlayTextElements, with p the placement context placeTextElements
\* has left: the context and the loadingState of the overlay text element
\* afterwards, and whether the element was added to its text canvas.
placeOverlayTextElements(p, state) ==
    IF state = "none" THEN [p |-> p, overlay |-> state, placed |-> FALSE]
    ELSE IF ~IsInitialized(LoadOverlayGlyphs(state))
    THEN [p |-> p, overlay |-> LoadOverlayGlyphs(state), placed |-> FALSE]
    ELSE IF LayerIsFull(p.draw, Overlay.renderOrder, Overlay.glyphs)
    THEN [p |-> p, overlay |-> LoadOverlayGlyphs(state), placed |-> FALSE]
    ELSE [p |-> [p EXCEPT !.draw[Overlay.renderOrder] = @ + Overlay.glyphs],
          overlay |-> LoadOverlayGlyphs(state), placed |-> TRUE]

\* An update decided without the view state's renderedTilesChanged.
NeedsUpdateOfTiles(cacheInvalidated, tileTextElementsChanged, renderedTilesChanged) ==
    cacheInvalidated \/ tileTextElementsChanged

\* updateTextElements of placeText (lines 354-357)
NeedsUpdate(cacheInvalidated, tileTextElementsChanged, renderedTilesChanged) ==
    cacheInvalidated \/ tileTextElementsChanged \/ renderedTilesChanged

\* What placeText leaves when it returns: the cache and the fields of the
\* renderer, with the record of the call.  `call` holds the inputs of the
\* call, `updated` is what cache.update returned, `derived` what the update
\* phase did, `placed` the placement context at the end of placeTextElements.
FrameOutcome(call, updated, derived, placed, over, overloaded) ==
    [c |-> over.p.c,
     overloaded |-> overloaded,
     force |-> over.p.force,
     loading |-> over.p.loading,
     allocated |-> over.p.allocated,
     overlay |-> over.overlay,
     frame |->
        [called |-> TRUE,
         ran |-> TRUE,
         tiles |-> call.tiles,
         invalidated |-> m_cacheInvalidated,
         changed |-> call.tiles \cap textElementsChanged # {},
         moved |-> call.tiles # renderedTiles,
         updated |-> call.updateNow,
         timed |-> call.updateNow /\ overloaded /\ call.isDynamic,
         placeTimed |-> overloaded /\ call.isDynamic,
         tick |-> call.updateTick,
         derived |-> derived.derived,
         skipped |-> IF call.updateNow THEN TilesGroups(call.tiles) \ derived.derived
                     ELSE {},
         untouched |-> SameStates(updated.c, derived.c,
                                  CachedKeys(updated.c) \ derived.derived),
         survivors |-> {e \in {1, 2} :
                           /\ ElementGroup(e) \in derived.derived
                           /\ derived.c.es[<<e, derived.c.gs[ElementGroup(e)].gen>>].dist},
         visitedBefore |-> VisitedKeys(cache),
         visitedAfter |-> VisitedKeys(placed.c),
         anyEviction |-> updated.anyEviction,
         evicted |-> CachedKeys(cache) \ CachedKeys(updated.c),
         unneeded |-> {g \in CachedKeys(cache) :
                         /\ g \notin TilesGroups(renderedTiles)
                         /\ g \notin updated.visible},
         forceBefore |-> m_forceNewLabelsPass,
         loadedBefore |-> {e \in Elements : loadingState[e] = "Loaded"},
         newPass |-> placed.newPass,
         placeable |-> PlaceableElements(derived.c),
         persistent |-> PersistentElements(derived.c),
         log |-> placed.log,
         exceededAt |-> placed.exceededAt,
         num |-> placed.num,
         added |-> placed.added,
         unplaced |-> IF placed.exceededAt < 0 THEN {}
                      ELSE {e \in PlaceableElements(derived.c) \ Attempted(placed.log) :
                              placed.newPass \/ e \in PersistentElements(derived.c)},
         skippedBefore |-> frame.skipped,
         unplacedBefore |-> frame.unplaced,
         overlayPlaced |-> over.placed,
         disableFading |-> updated.disableFading,
         collisionsBefore |-> m_screenCollisions,
         blocked |-> placed.blocked,
         allocated |-> placed.allocated,
         texts |-> placed.texts,
         draw |-> placed.draw,
         drawn |-> placed.drawn,
         adds |-> placed.adds,
         full |-> placed.full,
         small |-> placed.small]]

\* placeText from the call of placeOverlayTextElements on.
OverlayPhase(call, updated, derived, placed, overloaded) ==
    FrameOutcome(call, updated, derived, placed,
                 placeOverlayTextElements(placed, overlay), overloaded)

\* placeText from reset() and the call of placeTextElements on.
PlacePhase(call, updated, derived, overloaded) ==
    OverlayPhase(call, updated, derived,
                 placeTextElements(
                     NewPlacement(derived.c, loadingState, m_forceNewLabelsPass,
                                  prepopulateScreenWithBlockingElements(
                                      reset(m_screenCollisions), call.tiles)),
                     call.updateNow \/ updated.anyEviction, overloaded /\ call.isDynamic,
                     call.placeTick, m_options.maxNumVisibleLabels),
                 overloaded)

\* placeText from the test of updateTextElements on.
UpdatePhase(call, updated) ==
    PlacePhase(call, updated,
               IF call.updateNow
               THEN updateTextElements(updated.c, call.tiles, call.isDynamic, call.updateTick)
               ELSE [c |-> updated.c, derived |-> {}],
               IF call.updateNow THEN checkIfOverloaded(call.tiles) ELSE m_overloaded)

\* placeText(dataSourceTileList, projection, time) in a frame that gets past
\* initialize().  The inputs of the call are call.tiles, the rendered tiles,
\* dt, the time since the previous frame, call.isDynamic, the view state's
\* flag, call.updateTick and call.placeTick, the pace of the clock in the two
\* phases; call.updateNow is updateTextElements.  cache.update is called with
\* clearVisitedGroups (= updateTextElements) as its second argument and
\* m_options.disableFading as its third.
placeText(call, dt) ==
    UpdatePhase(call, update(NextFrame(Enter(cache)), dt, call.updateNow,
                             m_options.disableFading))

\* The renderer after a placeText call with the outcome o.
Returned(o) ==
    /\ \A g \in CachedKeys(o.c) : o.c.gs[g].gen # 0
    /\ cache' = Settle(o.c)
    /\ m_overloaded' = o.overloaded
    /\ m_forceNewLabelsPass' = o.force
    /\ loadingState' = o.loading
    /\ m_screenCollisions' = o.allocated
    /\ overlay' = o.overlay
    /\ frame' = o.frame

\* An initialization that counts as done as soon as it has started.
initializedOrInitializing(initState) == initState # "Uninitialized"

\* get initialized(), which is what initialize() returns.
initialized(initState) == initState = "Initialized"

\* An initialization that starts whenever text elements are available and
\* none is under way.
initializeAgain(initState, textElementsAvailable) ==
    IF initState # "Initializing" /\ textElementsAvailable THEN "Initializing"
    ELSE initState

\* initialize(textElementsAvailable): the new m_initState.
initialize(initState, textElementsAvailable) ==
    IF initState = "Uninitialized" /\ textElementsAvailable THEN "Initializing"
    ELSE initState

\* An initialization that starts without invalidating the cache.
notInvalidatedByInitialize(cacheInvalidated, initState, newInitState) == cacheInvalidated

\* m_cacheInvalidated after initialize(): the call that starts the
\* initialization calls invalidateCache() (line 537).
invalidatedByInitialize(cacheInvalidated, initState, newInitState) ==
    cacheInvalidated \/ newInitState # initState

\* One frame: checkIfTextElementsChanged, initialize and, once the renderer
\* is initialized, the rest of placeText.
PlaceText(tiles, dt, isDynamic, updateTick, placeTick) ==
    LET tileTextElementsChanged == tiles \cap textElementsChanged # {}
        initState == initialize(m_initState, overlay # "none" \/ tileTextElementsChanged)
        cacheInvalidated == invalidatedByInitialize(m_cacheInvalidated, m_initState, initState)
        updateNow == NeedsUpdate(cacheInvalidated, tileTextElementsChanged,
                                 tiles # renderedTiles)
        overloaded == IF updateNow THEN checkIfOverloaded(tiles) ELSE m_overloaded
        timed == overloaded /\ isDynamic
    IN  \* inputs that are not read in this frame are not varied: isDynamic is
        \* read only when overloaded, the clock only when a start time was
        \* taken, and the time only by a fade that is running and not disabled
        /\ overloaded \/ ~isDynamic
        /\ timed \/ placeTick = 0
        /\ (timed /\ updateNow) \/ updateTick = 0
        /\ dt = 0 \/ (~updateNow /\ AnyFading(cache))
        /\ textElementsChanged' = textElementsChanged \ tiles
        /\ renderedTiles' = tiles
        /\ m_initState' = initState
        /\ UNCHANGED <<lastOp, m_options>>
        /\ IF ~initialized(initState)
           THEN /\ m_cacheInvalidated' = cacheInvalidated
                /\ frame' = NotInitializedFrame(tiles)
                /\ UNCHANGED <<cache, m_overloaded, m_forceNewLabelsPass, loadingState,
                               m_screenCollisions, overlay>>
           ELSE /\ m_cacheInvalidated' = (cacheInvalidated /\ ~updateNow)
                /\ Returned(placeText([tiles |-> tiles, isDynamic |-> isDynamic,
                                       updateTick |-> updateTick, placeTick |-> placeTick,
                                       updateNow |-> updateNow], dt))

\* initializeTextCanvases() has resolved.
InitComplete ==
    /\ m_initState = "Initializing"
    /\ m_initState' = "Initialized"
    /\ frame' = NoFrame
    /\ UNCHANGED <<cache, lastOp, m_overloaded, m_cacheInvalidated, m_forceNewLabelsPass,
                   m_options, loadingState, renderedTiles, m_screenCollisions, textElementsChanged, overlay>>

\* The glyphs of every element that waits for them are taken as loaded.
charsetLoadedForAll(loading, e) ==
    [x \in Elements |-> IF loading[x] = "Requested" THEN "Loaded" ELSE loading[x]]

\* The loadingState of every element once the glyphs requested for element e
\* are loaded.
charsetLoaded(loading, e) == [loading EXCEPT ![e] = "Loaded"]

\* A glyph promise that leaves m_forceNewLabelsPass alone.
KeepNewLabelsPass(force) == force

\* m_forceNewLabelsPass as the glyph promise of a tile's element leaves it.
ForceNewLabelsPass(force) == TRUE

\* The glyphs requested for element e are loaded: the promise of
\* placeTextElementGroup resolves.
GlyphsLoaded(e) ==
    /\ loadingState[e] = "Requested"
    /\ loadingState' = charsetLoaded(loadingState, e)
    /\ m_forceNewLabelsPass' = ForceNewLabelsPass(m_forceNewLabelsPass)
    /\ frame' = NoFrame
    /\ UNCHANGED <<cache, lastOp, m_initState, m_overloaded, m_cacheInvalidated,
                   m_options, renderedTiles, m_screenCollisions, textElementsChanged, overlay>>

\* invalidateCache()
InvalidateCache ==
    /\ ~m_cacheInvalidated
    /\ m_cacheInvalidated' = TRUE
    /\ frame' = NoFrame
    /\ UNCHANGED <<cache, lastOp, m_initState, m_overloaded, m_forceNewLabelsPass,
                   m_options, loadingState, renderedTiles, m_screenCollisions, textElementsChanged, overlay>>

\* The data source has put new text elements into tile t.
TileTextElementsChanged(t) ==
    /\ t \notin textElementsChanged
    /\ textElementsChanged' = textElementsChanged \cup {t}
    /\ frame' = NoFrame
    /\ UNCHANGED <<cache, lastOp, m_initState, m_overloaded, m_cacheInvalidated,
                   m_forceNewLabelsPass, m_options, loadingState, renderedTiles, m_screenCollisions, overlay>>

\* addOverlayText([textElement]) for the one overlay text element.
AddOverlayText ==
    /\ overlay = "none"
    /\ overlay' = "undefined"
    /\ frame' = NoFrame
    /\ UNCHANGED <<cache, lastOp, m_initState, m_overloaded, m_cacheInvalidated,
                   m_forceNewLabelsPass, m_options, loadingState, renderedTiles, m_screenCollisions,
                   textElementsChanged>>

\* The glyphs requested for the overlay text element are loaded: the promise
\* of placeOverlayTextElements resolves.
OverlayGlyphsLoaded ==
    /\ overlay = "Requested"
    /\ overlay' = "Loaded"
    /\ frame' = NoFrame
    /\ UNCHANGED <<cache, lastOp, m_initState, m_overloaded, m_cacheInvalidated,
                   m_forceNewLabelsPass, m_options, loadingState, renderedTiles, m_screenCollisions,
                   textElementsChanged>>

Init ==
    /\ cache = EmptyCache
    /\ lastOp = NoOp
    /\ RendererInit
    /\ m_options \in TextOptions

Next ==
    \/ \E tiles \in Views, dt \in 0..MaxDt, isDynamic \in BOOLEAN,
          updateTick \in UpdateTicks, placeTick \in PlaceTicks :
           PlaceText(tiles, dt, isDynamic, updateTick, placeTick)
    \/ InitComplete
    \/ \E e \in Elements : GlyphsLoaded(e)
    \/ InvalidateCache

Spec == Init /\ [][Next]_vars

(***************************************************************************)
(* The renderer with all that happens between frames: tiles that get new   *)
(* text elements, an overlay text element, the completions of glyph loads  *)
(* and of the initialization.  The frames are static.                      *)
(***************************************************************************)
\* The tile that gets new text elements.
ChangingTiles == {2}

EventsInit ==
    /\ cache = EmptyCache
    /\ lastOp = NoOp
    /\ RendererInit
    /\ m_options = [maxNumVisibleLabels |-> 4, disableFading |-> FALSE]

EventsNext ==
    \/ \E tiles \in Views : PlaceText(tiles, 0, FALSE, 0, 0)
    \/ InitComplete
    \/ \E e \in Elements : GlyphsLoaded(e)
    \/ InvalidateCache
    \/ \E t \in ChangingTiles : TileTextElementsChanged(t)
    \/ AddOverlayText
    \/ OverlayGlyphsLoaded

SpecEvents == EventsInit /\ [][EventsNext]_vars

(***************************************************************************)
(* The renderer with a clock that advances during the update phase of a    *)
(* frame; the placement phase takes no time.                               *)
(***************************************************************************)
BudgetViews == {{1, 2, 3}, {2}}

BudgetNext ==
    \/ \E tiles \in BudgetViews, isDynamic \in BOOLEAN, updateTick \in UpdateTicks :
           PlaceText(tiles, 0, isDynamic, updateTick, 0)
    \/ InitComplete
    \/ \E e \in Elements : GlyphsLoaded(e)
    \/ InvalidateCache

SpecBudget == EventsInit /\ [][BudgetNext]_vars

(***************************************************************************)
(* Properties of the cache.                                                *)
(***************************************************************************)
GroupVisible(c, g) == \E r \in Range(textElementStates(c.gs[g])) : esVisible(c.es[r])

\* C1: update() removes a cached group if and only if the group's fading
\* update reported it not visible and its visited flag was false; a visited
\* group is retained even when none of its elements is visible.
C1_EvictIffNotVisibleNotVisited ==
    lastOp.op = "update" => lastOp.evicted = lastOp.unneeded

\* An update has evicted one group and retained another, visited one none of
\* whose elements is visible.
C1_Witness ==
    /\ lastOp.op = "update"
    /\ lastOp.evicted # {}
    /\ \E g \in CachedKeys(cache) : cache.gs[g].visited /\ ~GroupVisible(cache, g)

\* C2: after any sequence of getOrSet, update, clearVisited, clearTextCache
\* and clear, every cached group state has as many element states as its
\* group has elements, and the assertion of the getOrSet hit has not failed.
C2_SizeMatchesGroup ==
    /\ \A g \in CachedKeys(cache) : gsSize(cache.gs[g]) = GroupLength(g)
    /\ "getOrSet" \notin cache.failed

\* A getOrSet hit (where the assertion is made) on the second group, with
\* both groups cached.
C2_Witness ==
    /\ lastOp.op = "getOrSet" /\ lastOp.wasCached /\ lastOp.key = 2
    /\ Len(cache.ref) = 2

\* C7: a getOrSet that directly follows a getOrSet of the same group (same
\* filter) is a cache hit returning the same group state object, leaves the
\* number of cached groups unchanged and creates no element state.
C7_GetOrSetIdempotent ==
    (lastOp.op = "getOrSet" /\ lastOp.again)
        => /\ lastOp.wasCached
           /\ lastOp.same
           /\ lastOp.grown = 0
           /\ lastOp.created = 0

\* The second of two consecutive getOrSet calls for the same group returned.
C7_Witness ==
    lastOp.op = "getOrSet" /\ lastOp.again /\ lastOp.wasCached

(***************************************************************************)
(* Properties of a frame.                                                  *)
(***************************************************************************)
\* The persistent element e was attempted before the k-th attempt of the
\* frame.
AttemptedBefore(e, k) ==
    \E j \in 1..(k - 1) : frame.log[j] = <<e, PersistentLabels>>

\* The k-th attempt of the frame is the attempt to place a new label.
IsNewAttempt(k) == frame.log[k][2] = NewLabels

LogPriority(k) == GroupPriority[ElementGroup(frame.log[k][1])]

\* C3: within a frame, every visible (persistent) element of a group of
\* priority P1 is attempted before any not-yet-visible (new) element of a
\* group of priority P2 < P1 is attempted, also when the frame stops early.
C3_PersistentBeforeLowerNew ==
    frame.ran =>
        \A k \in DOMAIN frame.log :
            IsNewAttempt(k) =>
                \A e \in frame.persistent :
                    GroupPriority[ElementGroup(e)] > LogPriority(k) => AttemptedBefore(e, k)

\* C4: within a frame, the persistent pass over every group of a priority
\* bucket is completed before any not-yet-visible element of a group of that
\* bucket is attempted, whatever the order of the groups in the cache.
C4_PersistentBeforeSameNew ==
    frame.ran =>
        \A k \in DOMAIN frame.log :
            IsNewAttempt(k) =>
                \A e \in frame.persistent :
                    GroupPriority[ElementGroup(e)] = LogPriority(k) => AttemptedBefore(e, k)

\* C5: with maxNumVisibleLabels = N >= 0, the rendered-element count at the
\* end of placeTextElements never exceeds N, for every element type.
C5_LabelBudget ==
    (frame.ran /\ m_options.maxNumVisibleLabels >= 0)
        => frame.num <= m_options.maxNumVisibleLabels

\* C6: after every update cycle that derives both twin point labels (same
\* text, anchors closer than the duplicate threshold, both passing the other
\* pre-placement checks), exactly one of them is the deduplication survivor.
C6_OneSurvivor ==
    (frame.ran /\ frame.updated /\ {ElementGroup(1), ElementGroup(2)} \subseteq frame.derived)
        => Cardinality(frame.survivors) = 1

\* C8: in a frame where updateTextElements is true, the visited flags are
\* cleared before the groups are re-derived, so that at the end of the frame
\* exactly the groups re-derived in it are visited; in a frame where it is
\* false no visited flag changes.
C8_VisitedAreDerived ==
    frame.ran =>
        IF frame.updated
        THEN frame.visitedAfter = frame.derived
        ELSE frame.visitedAfter = frame.visitedBefore \ frame.evicted

\* C9: a cached group that was in no rendered tile of the update cycle before
\* and whose elements have all finished fading out is evicted by the frame.
C9_UnneededEvicted ==
    frame.ran => frame.unneeded \subseteq frame.evicted

\* C10: once the placement time limit is found exceeded in placeTextElements,
\* no further element is attempted in the frame, in neither pass.
C10_NothingAfterTimeLimit ==
    (frame.ran /\ frame.exceededAt >= 0) => Len(frame.log) = frame.exceededAt

\* C11: while the renderer's init state is not Initialized, a placeText call
\* returns at initialize(): the state cache is not touched (no update, no
\* getOrSet), the frame is not reset, and no element of a tile and no overlay
\* element is attempted, has its glyphs requested or is placed.
C11_NoOpUntilInitialized ==
    [][(frame'.called /\ m_initState' # "Initialized")
          => /\ ~frame'.ran
             /\ cache' = cache
             /\ loadingState' = loadingState
             /\ overlay' = overlay
             /\ m_overloaded' = m_overloaded
             /\ m_forceNewLabelsPass' = m_forceNewLabelsPass
             /\ frame'.log = <<>> /\ frame'.added = {} /\ ~frame'.overlayPlaced]_vars

\* A placeText call has returned while the initialization was under way, with
\* an overlay text element and tiles with text elements there to be placed.
C11_Witness ==
    /\ frame.called /\ ~frame.ran
    /\ m_initState = "Initializing"
    /\ overlay = "undefined"
    /\ frame.tiles = {1, 2}

\* C12: once initialized, a placeText frame re-derives the cached groups if
\* and only if the cache was invalidated since the last update, or a rendered
\* tile had its textElementsChanged flag set, or the set of rendered tiles
\* changed; a frame that updates leaves the invalidated flag cleared, a frame
\* that does not update leaves it as it was, and every placeText call leaves
\* the textElementsChanged flag of every tile it was given cleared.
C12_UpdateIffNeeded ==
    /\ frame.ran => /\ frame.updated <=> (frame.invalidated \/ frame.changed \/ frame.moved)
                    /\ frame.updated => ~m_cacheInvalidated
                    /\ ~frame.updated => (m_cacheInvalidated <=> frame.invalidated)
    /\ frame.called => frame.tiles \cap textElementsChanged = {}

\* A frame has updated for the only reason that a rendered tile had new text
\* elements: the cache was not invalidated and the rendered tiles are those of
\* the frame before.
C12_Witness ==
    /\ frame.ran /\ frame.updated
    /\ frame.changed /\ ~frame.invalidated /\ ~frame.moved

C14_OnlyInitializedPlaced ==
    frame.ran =>
        /\ \A e \in frame.added : loadingState[e] = "Initialized"
        /\ \A e \in Attempted(frame.log) \ frame.added : loadingState[e] = "Requested"
        /\ (frame.newPass /\ frame.exceededAt < 0
                /\ frame.num < m_options.maxNumVisibleLabels) =>
              frame.placeable \subseteq Attempted(frame.log)

\* In a frame an element with a pending glyph load was attempted and skipped,
\* and a later element of the same group was handed on in the same pass.
C14_Witness ==
    /\ frame.ran
    /\ \E k, j \in DOMAIN frame.log :
          /\ k < j
          /\ frame.log[k][2] = frame.log[j][2]
          /\ ElementGroup(frame.log[k][1]) = ElementGroup(frame.log[j][1])
          /\ loadingState[frame.log[k][1]] = "Requested"
          /\ frame.log[k][1] \notin frame.added
          /\ frame.log[j][1] \in frame.added

\* The glyph load of an element of a tile completes in this step.
GlyphLoadCompletes ==
    /\ ~frame'.called
    /\ \E e \in Elements : loadingState[e] = "Requested" /\ loadingState'[e] = "Loaded"

\* This step is a placeText frame with a non-empty cache that finds the forced
\* new-label pass requested.
ForcedFrame ==
    /\ frame'.ran /\ CachedKeys(cache') # {}
    /\ m_forceNewLabelsPass

CompletionCallback ==
    /\ ~frame'.called
    /\ \/ loadingState' # loadingState
       \/ overlay = "Requested" /\ overlay' = "Loaded"
       \/ m_initState = "Initializing" /\ m_initState' = "Initialized"

\* C16: in any interleaving of frames and completions, a completion callback
\* changes nothing but the loadingState of the one element whose glyphs were
\* requested (Requested to Loaded), the force-new-labels flag (only to true)
\* or the init state (Initializing to Initialized): the state cache with its
\* group states, text index, fade and visited states stays as it was, and so
\* do the other fields of the renderer.
C16_CallbacksOnlySetFlags ==
    [][CompletionCallback =>
          /\ cache' = cache
          /\ UNCHANGED <<m_overloaded, m_cacheInvalidated, m_options, renderedTiles,
                         m_screenCollisions, textElementsChanged>>
          /\ m_forceNewLabelsPass => m_forceNewLabelsPass'
          /\ \/ /\ \E e \in Elements :
                      /\ loadingState[e] = "Requested"
                      /\ loadingState' = [loadingState EXCEPT ![e] = "Loaded"]
                /\ UNCHANGED <<overlay, m_initState>>
             \/ /\ overlay = "Requested" /\ overlay' = "Loaded"
                /\ UNCHANGED <<loadingState, m_initState, m_forceNewLabelsPass>>
             \/ /\ m_initState = "Initializing" /\ m_initState' = "Initialized"
                /\ UNCHANGED <<loadingState, overlay, m_forceNewLabelsPass>>]_vars

\* The glyph load of one element has completed while another element and the
\* overlay element were still waiting for theirs, with groups in the cache and
\* a label fading in.
C16_Witness ==
    /\ ~frame.called
    /\ \E e, x \in Elements : loadingState[e] = "Loaded" /\ loadingState[x] = "Requested"
    /\ overlay = "Requested"
    /\ m_forceNewLabelsPass
    /\ CachedKeys(cache) # {}
    /\ AnyFading(cache)

\* The number of text elements of the groups `groups`.
RECURSIVE ElementsIn(_)
ElementsIn(groups) ==
    IF groups = {} THEN 0
    ELSE LET g == CHOOSE x \in groups : TRUE
         IN  Len(GroupElements[g]) + GroupPad[g] + ElementsIn(groups \ {g})

\* C17: after an update cycle, overloaded is true if and only if the number
\* of text elements in the rendered tiles counted in that cycle is strictly
\* greater than 20000: more than 20000 set it, exactly 20000 leave it false,
\* and it is false again after a later cycle that counts 20000 or fewer.
C17_OverloadedIffOverLimit ==
    (frame.ran /\ frame.updated) =>
        (m_overloaded <=> ElementsIn(TilesGroups(frame.tiles)) > 20000)

\* An update cycle over tiles with exactly 20000 elements has left overloaded
\* false, after an earlier cycle over tiles with 20001 elements (the one that
\* cached group 1) had set it.
C17_Witness ==
    /\ frame.ran /\ frame.updated
    /\ ElementsIn(TilesGroups(frame.tiles)) = 20000
    /\ ~m_overloaded
    /\ 1 \in CachedKeys(cache)
    /\ ElementsIn(TilesGroups({1, 2})) = 20001

\* The number of text elements of the groups of `groups` with a priority of
\* at least `priority`: what the update phase has counted once it has updated
\* the bucket of that priority.
UpdatedUpTo(groups, priority) ==
    ElementsIn({g \in groups : GroupPriority[g] >= priority})

\* The number of buckets the update phase has updated by then, which is also
\* the number of its readings of the clock.
BucketsUpTo(groups, priority) ==
    Cardinality({GroupPriority[g] : g \in {h \in groups : GroupPriority[h] >= priority}})

\* The update phase of a timed frame stops after the bucket of `priority`.
BudgetTrips(groups, priority, tick) ==
    \/ BucketsUpTo(groups, priority) * tick > 5
    \/ UpdatedUpTo(groups, priority) >= 100

\* C18: in an overloaded, dynamic frame the update phase goes through the
\* priority buckets of the rendered tiles in descending priority and stops
\* after the first bucket at which the update time limit (5 ms) is exceeded or
\* the number of elements updated so far reaches 100: the groups passed to
\* getOrSet are those with no budget trip at a bucket of higher priority, and
\* the group states and element states of all other cached groups are left
\* exactly as they were.
C18_UpdateStopsAtBudget ==
    (frame.ran /\ frame.timed) =>
        /\ frame.derived =
              {g \in TilesGroups(frame.tiles) :
                  \A h \in TilesGroups(frame.tiles) :
                      GroupPriority[h] > GroupPriority[g]
                          => ~BudgetTrips(TilesGroups(frame.tiles), GroupPriority[h], frame.tick)}
        /\ frame.skipped = TilesGroups(frame.tiles) \ frame.derived
        /\ frame.untouched

\* A timed update has gone past its first bucket and stopped after the second
\* because of the number of updated elements, leaving out a group of the
\* third bucket that had a state in the cache.
C18_Witness ==
    /\ frame.ran /\ frame.timed /\ frame.tick = 0
    /\ frame.derived = {1, 2, 3}
    /\ frame.skipped = {4}
    /\ 4 \in CachedKeys(cache)

\* C19: what an overload budget left out in a frame is processed again in the
\* following frame.  After an update phase that stopped early, the next
\* placeText frame updates again and passes the skipped groups of its tiles to
\* getOrSet; after a placement phase that stopped early, the next frame, if it
\* is not stopped itself, attempts the elements left unplaced.
C19_RetriedNextFrame ==
    frame.ran =>
        /\ frame.skippedBefore \cap TilesGroups(frame.tiles) # {} =>
              /\ frame.updated
              /\ (frame.skippedBefore \cap TilesGroups(frame.tiles)) \subseteq frame.derived
        /\ (frame.exceededAt < 0 /\ frame.num < m_options.maxNumVisibleLabels) =>
              (frame.unplacedBefore \cap frame.placeable) \subseteq Attempted(frame.log)

\* The positions of the candidates of c's text index that have the text of
\* the element state r and lie within the duplicate distance of it.
NearCandidates(c, r) ==
    {i \in DOMAIN c.tm[ElementText[r[1]]] :
        DistSq(r[1], c.tm[ElementText[r[1]]][i][1]) < 15000000}

\* C20: deduplicateElement, called for a point label with a cached candidate
\* of the same text within the threshold: if that candidate is not visible and
\* the new state is visible, the new state takes the candidate's position in
\* the candidate list, the candidate's state is reset and the result is true;
\* in every other case the candidate lists are unchanged, no state is reset
\* and the result is false.  Nothing else of the cache changes in either case.
C20_DeduplicateSubstitutes ==
    (/\ lastOp.op = "deduplicateElement"
     /\ ElementType[lastOp.ref[1]] = "PoiLabel"
     /\ NearCandidates(lastOp.before, lastOp.ref) # {}) =>
        LET before == lastOp.before
            after == lastOp.after
            r == lastOp.ref
            text == ElementText[r[1]]
            i == CHOOSE k \in NearCandidates(before, r) :
                     \A j \in NearCandidates(before, r) : k <= j
            candidate == before.tm[text][i]
        IN  /\ after.ref = before.ref /\ after.gs = before.gs
            /\ IF ~esVisible(before.es[candidate]) /\ esVisible(before.es[r])
               THEN /\ after.tm = [before.tm EXCEPT ![text][i] = r]
                    /\ after.es = [before.es EXCEPT ![candidate] = esReset(@)]
                    /\ ~esVisible(after.es[candidate])
                    /\ lastOp.res
               ELSE /\ after.tm = before.tm
                    /\ after.es = before.es
                    /\ ~lastOp.res

\* deduplicateElement has put a visible state in the place of a candidate that
\* was not visible, and the reset has changed that candidate's state.
C20_Witness ==
    /\ lastOp.op = "deduplicateElement"
    /\ lastOp.res
    /\ NearCandidates(lastOp.before, lastOp.ref) # {}
    /\ lastOp.ref \in Range(lastOp.after.tm[ElementText[lastOp.ref[1]]])
    /\ lastOp.ref \notin Range(lastOp.before.tm[ElementText[lastOp.ref[1]]])
    /\ lastOp.after.es # lastOp.before.es

\* The first candidate of c's text index with the text of the element state r
\* within the duplicate distance of it.
NearCandidate(c, r) ==
    c.tm[ElementText[r[1]]][CHOOSE k \in NearCandidates(c, r) :
                                \A j \in NearCandidates(c, r) : k <= j]

\* update(time, false, true) on the cache c calls replaceElement for the
\* element state r: r belongs to a cached group that is not visited and is
\* visible once its fading is updated.
ReplaceCalled(c, r, dt) ==
    /\ IsCachedRef(c, r)
    /\ \E g \in CachedKeys(c) : r \in Range(textElementStates(c.gs[g])) /\ ~c.gs[g].visited
    /\ esVisible(esUpdateFading(c.es[r], dt, FALSE))

\* The element state r is a shown point label that has a twin to hand over
\* to: the tracked candidate near it is another state, of a cached group that
\* is visited, and is not visible.
HasEligibleTwin(c, r) ==
    /\ ElementType[r[1]] = "PoiLabel"
    /\ NearCandidates(c, r) # {}
    /\ NearCandidate(c, r) # r
    /\ \E g \in CachedKeys(c) :
          NearCandidate(c, r) \in Range(textElementStates(c.gs[g])) /\ c.gs[g].visited
    /\ ~esVisible(c.es[NearCandidate(c, r)])

\* C21: when the shown label of a duplicate pair is in a group that is no
\* longer visited while its twin is the tracked, not yet visible candidate,
\* the update hands the shown label's render states over to the twin: the twin
\* is visible with the fade state and age the shown label has in this update,
\* and the shown label gives them up.  When no replaceElement call of the
\* update is for a point label with a candidate of its text within the
\* threshold, the update leaves the cache as an update without replacements.
C21_ReplaceKeepsFade ==
    [][(lastOp'.op = "update" /\ cache.ref # <<>>) =>
          /\ \A r \in Refs :
                (ReplaceCalled(Enter(cache), r, lastOp'.dt) /\ HasEligibleTwin(Enter(cache), r)) =>
                    /\ lastOp'.after.es[NearCandidate(cache, r)].text =
                          esUpdateFading(cache.es[r], lastOp'.dt, FALSE).text
                    /\ lastOp'.after.es[NearCandidate(cache, r)].icons =
                          esUpdateFading(cache.es[r], lastOp'.dt, FALSE).icons
                    /\ esVisible(lastOp'.after.es[NearCandidate(cache, r)])
                    /\ ~esVisible(lastOp'.after.es[r])
          /\ (\A r \in Refs :
                 ReplaceCalled(Enter(cache), r, lastOp'.dt) =>
                     ElementType[r[1]] # "PoiLabel" \/ NearCandidates(cache, r) = {}) =>
                lastOp'.after = update(Enter(cache), lastOp'.dt, FALSE, FALSE).c]_vars

\* An update has handed a completed fade-in over to the twin of a label whose
\* group was no longer visited.
C21_Witness ==
    /\ lastOp.op = "update"
    /\ \E r, x \in Refs :
          /\ r[1] # x[1]
          /\ ElementType[r[1]] = "PoiLabel" /\ ElementText[r[1]] = ElementText[x[1]]
          /\ lastOp.after.es[x].text.state = "FadedIn"
          /\ ~lastOp.after.es[r].init
          /\ \E g \in CachedKeys(lastOp.after) :
                r \in Range(textElementStates(lastOp.after.gs[g])) /\ ~lastOp.after.gs[g].visited

\* C22: in every frame the disableFading argument that
\* TextElementStateCache.update receives is the renderer's disableFading
\* option, whether or not text elements are updated in the frame.
C22_DisableFadingIsOption ==
    frame.ran => frame.disableFading = m_options.disableFading

\* The position of the key k in the sequence of keys seq.
PositionIn(seq, k) == CHOOSE i \in 1..Len(seq) : seq[i] = k

\* view holds exactly the keys of the group states cached in c, each once, by
\* non-increasing priority and, among equal priorities, in the order of the
\* map.
IsCurrentView(c, view) ==
    /\ Range(view) = CachedKeys(c)
    /\ Len(view) = Cardinality(CachedKeys(c))
    /\ \A i, j \in 1..Len(view) :
          i < j =>
             \/ GroupPriority[view[i]] > GroupPriority[view[j]]
             \/ /\ GroupPriority[view[i]] = GroupPriority[view[j]]
                /\ PositionIn(c.ref, view[i]) < PositionIn(c.ref, view[j])

\* C23: after any sequence of getOrSet, update, clearVisited and clear calls,
\* sortedGroupStates returns exactly the group states in the cache, each once,
\* by non-increasing group priority and with equal priorities in the
\* iteration order of the map; a view the cache holds is never one computed
\* before an insertion, an eviction or a clear that changed the cache.
C23_SortedViewIsCurrent ==
    /\ cache.sorted.def => IsCurrentView(cache, cache.sorted.v)
    /\ lastOp.op = "sortedGroupStates" =>
          /\ cache.sorted.def
          /\ lastOp.view = cache.sorted.v
          /\ "sortedGroupStates" \notin cache.failed

\* The view is read with the three groups cached, the group of lower priority
\* inserted first and the two groups of equal priority in the order 2, 1.
C23_Witness ==
    /\ lastOp.op = "sortedGroupStates"
    /\ cache.ref = <<3, 2, 1>>
    /\ lastOp.view = <<2, 1, 3>>

(***************************************************************************)
(* The renderer over the tiles that carry path labels, blocking elements   *)
(* and a text layer of small capacity, with an overlay text element.  The  *)
(* frames are overloaded, so the placement phase has a time budget when    *)
(* the view is dynamic; it is dynamic in the frames in which the clock     *)
(* advances.                                                               *)
(***************************************************************************)
ScreenViews == {{4}, {3, 4}}

\* Milliseconds between two readings of the clock in the placement phase.
ScreenTicks == {0, 11}

ScreenNext ==
    \/ \E tiles \in ScreenViews, placeTick \in ScreenTicks :
           PlaceText(tiles, 0, placeTick > 0, 0, placeTick)
    \/ InitComplete
    \/ \E e \in Elements : GlyphsLoaded(e)
    \/ AddOverlayText
    \/ OverlayGlyphsLoaded

SpecScreen == Init /\ [][ScreenNext]_vars

\* The state of element e in its cached group state.
CachedState(c, e) == c.es[<<e, c.gs[ElementGroup(e)].gen>>]

\* Element e is a path label none of whose anchor points is on screen.
IsOffScreenPath(e) == ElementType[e] = "PathLabel" /\ PointsOnScreen[e] = 0

\* In the log, the entry <<e, pass>> at position k is followed by an entry
\* for every later element of the group of e that placement lets through to
\* the same pass.
FollowersProcessed(f, k) ==
    \A j \in Elements :
        (/\ j > f.log[k][1]
         /\ ElementGroup(j) = ElementGroup(f.log[k][1])
         /\ j \in f.placeable
         /\ (f.log[k][2] = PersistentLabels <=> j \in f.persistent))
            => \E m \in DOMAIN f.log : m > k /\ f.log[m] = <<j, f.log[k][2]>>

\* C24: a path label none of whose anchor points projects onto the screen,
\* once it reaches placement in a frame, is not placed in that frame: it is
\* not handed to addPathLabel (so nothing is added to the draw buffer, no
\* collision space is allocated and the rendered count is not incremented),
\* its element state is reset, no glyph load is requested for it, no
\* assertion fails, and the elements that follow it in its group are still
\* processed.
C24_OffScreenPathLabelDiscarded ==
    \A k \in DOMAIN frame.log :
        (frame.ran /\ IsOffScreenPath(frame.log[k][1])) =>
            /\ frame.log[k][1] \notin frame.added
            /\ frame.log[k][1] \notin frame.drawn
            /\ frame.num <= Cardinality(frame.added)
            /\ loadingState[frame.log[k][1]] = "undefined"
            /\ ~CachedState(cache, frame.log[k][1]).dist
            /\ CachedState(cache, frame.log[k][1]).text = NewRenderState
            /\ cache.failed = {}
            /\ FollowersProcessed(frame, k)

C24_Witness ==
    /\ frame.ran
    /\ \E k \in DOMAIN frame.log :
          /\ frame.log[k] = <<7, NewLabels>>
          /\ k < Len(frame.log)
          /\ frame.log[k + 1] = <<8, NewLabels>>
    /\ 5 \in frame.drawn
    /\ ~CachedState(cache, 7).dist

\* The glyphs of the elements of `elements`.
RECURSIVE GlyphsOf(_)
GlyphsOf(elements) ==
    IF elements = {} THEN 0
    ELSE GlyphCount[CHOOSE e \in elements : TRUE]
             + GlyphsOf(elements \ {CHOOSE e \in elements : TRUE})

\* Some character of path label e has a box that is off screen or, the
\* label's text not being allowed to overlap, on a cell of `allocated`.
HasUnfitCharacter(allocated, e) ==
    \E i \in DOMAIN CharBoxes[e] :
        \/ CharBoxes[e][i] \cap ScreenCells = {}
        \/ (~TextMayOverlap[e] /\ CharBoxes[e][i] \cap allocated # {})

\* C25: a path label handed to addPathLabel in a frame, one of whose
\* character boxes is not on screen or lies on space that is allocated
\* (the blocking elements of the frame are, from the start of the placement)
\* while its text may not overlap, adds nothing to the draw buffer,
\* allocates no collision space and is not counted as rendered; a path label
\* is drawn with all its glyphs or not at all.
C25_PathLabelAllOrNothing ==
    frame.ran =>
        /\ \A e \in frame.added :
              (ElementType[e] = "PathLabel" /\ HasUnfitCharacter(frame.blocked, e)) =>
                  /\ e \notin frame.drawn
                  /\ TextBox[e] \cap frame.allocated \subseteq frame.blocked
                  /\ frame.num <= Cardinality(frame.added \ {e})
        /\ \A layer \in Layers :
              frame.draw[layer] = GlyphsOf({e \in frame.drawn : RenderOrder[e] = layer})
        /\ \A e \in frame.drawn :
              ElementType[e] = "PathLabel" => TextBox[e] \subseteq frame.allocated

C25_Witness ==
    /\ frame.ran
    /\ frame.tiles = {3, 4}
    /\ {5, 8} \subseteq frame.added
    /\ HasUnfitCharacter(frame.blocked, 5)
    /\ HasUnfitCharacter(frame.blocked, 8)
    /\ 6 \in frame.drawn

\* A frame in which the same path label is drawn, its characters fitting.
C25_WitnessDrawn ==
    /\ frame.ran
    /\ frame.tiles = {4}
    /\ 5 \in frame.drawn
    /\ frame.draw[1] = 2

\* C26: in every frame after initialization the overlay text element is
\* placed after the groups of the tiles: it is added to its text canvas
\* exactly when its glyphs are initialized and its layer has room behind the
\* glyphs the tiles' elements have drawn, whatever the number of rendered
\* labels and whether or not the placement time limit was exceeded, and the
\* screen collisions the frame leaves are those of the tiles' elements.
C26_OverlayPlacedLast ==
    frame.ran =>
        /\ frame.overlayPlaced <=>
              /\ overlay = "Initialized"
              /\ GlyphsOf({e \in frame.drawn : RenderOrder[e] = Overlay.renderOrder})
                     + Overlay.glyphs <= LayerCapacity[Overlay.renderOrder]
        /\ m_screenCollisions = frame.allocated

C26_Witness ==
    /\ frame.ran
    /\ frame.overlayPlaced
    /\ frame.exceededAt >= 0
    /\ 6 \in frame.drawn
    /\ TextBox[6] \subseteq m_screenCollisions

\* The overlay is placed in a frame that has reached maxNumVisibleLabels.
C26_WitnessLimit ==
    /\ frame.ran
    /\ frame.overlayPlaced
    /\ frame.num >= m_options.maxNumVisibleLabels

\* The glyphs the overlay text element has added to the layer in frame f.
OverlayGlyphs(f, layer) ==
    IF f.overlayPlaced /\ layer = Overlay.renderOrder THEN Overlay.glyphs ELSE 0

\* C27: in a frame, an element of a tile is handed to its text canvas only
\* when the draw count of its layer plus its glyph count is within the
\* layer's capacity, and so is the overlay text element, so that no layer
\* ends the frame above its capacity; an element left out for this reason is
\* an element the layer had no room for, it is not placed, and the elements
\* that follow it in its group are still processed.
C27_NoAddBeyondCapacity ==
    frame.ran =>
        /\ \A i \in DOMAIN frame.adds :
              frame.adds[i][2] + GlyphCount[frame.adds[i][1]]
                  <= LayerCapacity[RenderOrder[frame.adds[i][1]]]
        /\ \A layer \in Layers :
              GlyphsOf({e \in frame.drawn : RenderOrder[e] = layer})
                  + OverlayGlyphs(frame, layer) <= LayerCapacity[layer]
        /\ \A k \in DOMAIN frame.log :
              (/\ loadingState[frame.log[k][1]] = "Initialized"
               /\ ~IsOffScreenPath(frame.log[k][1])
               /\ frame.log[k][1] \notin frame.added) =>
                  /\ frame.draw[RenderOrder[frame.log[k][1]]] + GlyphCount[frame.log[k][1]]
                         > LayerCapacity[RenderOrder[frame.log[k][1]]]
                  /\ frame.log[k][1] \notin frame.drawn
                  /\ FollowersProcessed(frame, k)

C27_Witness ==
    /\ frame.ran
    /\ 5 \in frame.drawn
    /\ 6 \notin frame.added
    /\ \E k \in DOMAIN frame.log :
          /\ frame.log[k] = <<6, NewLabels>>
          /\ k < Len(frame.log)
          /\ frame.log[k + 1] = <<8, NewLabels>>
    /\ loadingState[6] = "Initialized"
    /\ overlay = "Initialized"
    /\ ~frame.overlayPlaced

\* The screen cells of the blocking elements of the tiles `tiles` that have
\* two points or more.
BlockedBy(tiles) ==
    UNION {Range(b) : b \in {x \in UNION {Range(TileBlocking[t]) : t \in tiles} : Len(x) >= 2}}

\* The screen cells the elements handed to placement in frame f can allocate.
LabelCells(f) == UNION {TextBox[e] \cup UNION Range(IconBox[e]) : e \in f.added}

\* C28: in every frame after initialization the placement starts from a
\* collision index that holds exactly the blocking elements of the rendered
\* tiles that have at least 2 points: no allocation of an earlier frame is
\* left in it, the blocking cells are reserved before any label is attempted
\* (no label is drawn on them) and stay allocated, and whatever else is
\* allocated at the end of the frame was allocated by a label of the frame.
C28_CollisionsRebuiltEveryFrame ==
    frame.ran =>
        /\ frame.blocked = BlockedBy(frame.tiles)
        /\ frame.blocked \subseteq frame.allocated
        /\ frame.allocated \subseteq frame.blocked \cup LabelCells(frame)
        /\ \A e \in frame.drawn : TextBox[e] \cap frame.blocked = {}

C28_Witness ==
    /\ frame.ran
    /\ frame.tiles = {4}
    /\ {6, 7, 8} \subseteq frame.collisionsBefore
    /\ frame.blocked = {}
    /\ 5 \in frame.drawn
    /\ 8 \notin frame.allocated

\* A frame over the tile with the one-point blocking element, whose cell a
\* label takes.
C28_WitnessPoint ==
    /\ frame.ran
    /\ frame.tiles = {3, 4}
    /\ frame.blocked = {6, 7}
    /\ 6 \in frame.drawn
    /\ 5 \in frame.added

\* The elements of the groups the cache c refers to.
CachedElements(c) == {e \in Elements : ElementGroup(e) \in CachedKeys(c)}

\* C29: in a frame, an element of a cached group whose state the
\* pre-placement filter has left not initialized or without a view distance
\* is attempted in neither pass and no glyph load is started for it
\* (its loadingState is what it was), while its group stays cached with a
\* state for each of its elements.
C29_FilteredElementNotPlaced ==
    [][frame'.ran =>
          \A e \in CachedElements(cache') \ frame'.placeable :
              /\ e \notin Attempted(frame'.log)
              /\ e \notin frame'.added
              /\ loadingState'[e] = loadingState[e]
              /\ gsSize(cache'.gs[ElementGroup(e)]) = Len(GroupElements[ElementGroup(e)])
              /\ IsLiveRef(cache', <<e, cache'.gs[ElementGroup(e)].gen>>)]_vars

C29_Witness ==
    /\ frame.ran
    /\ \E e \in CachedElements(cache) \ frame.placeable :
          /\ CachedState(cache, e).init
          /\ loadingState[e] = "Requested"
          /\ \E j \in Attempted(frame.log) : ElementGroup(j) = ElementGroup(e)
    /\ \E e \in CachedElements(cache) \ frame.placeable :
          /\ ~CachedState(cache, e).init
          /\ loadingState[e] = "undefined"

(***************************************************************************)
(* The renderer from its construction, before any tile has text elements:  *)
(* frames that find nothing to render come before the one that starts the  *)
(* initialization.                                                         *)
(***************************************************************************)
StartInit ==
    /\ cache = EmptyCache
    /\ lastOp = NoOp
    /\ m_initState = "Uninitialized"
    /\ m_overloaded = FALSE
    /\ m_cacheInvalidated = FALSE
    /\ m_forceNewLabelsPass = FALSE
    /\ loadingState = [e \in Elements |-> "undefined"]
    /\ renderedTiles = {}
    /\ m_screenCollisions = {}
    /\ textElementsChanged = {}
    /\ overlay = "none"
    /\ frame = NoFrame
    /\ m_options = [maxNumVisibleLabels |-> 4, disableFading |-> FALSE]

SpecStart == StartInit /\ [][EventsNext]_vars

\* The step is a placeText call that sees an overlay text element or a
\* rendered tile with new text elements.
CallSeesText == frame'.called /\ (overlay # "none" \/ frame'.tiles \cap textElementsChanged # {})

\* C30: m_initState only moves from Uninitialized to Initializing and from
\* Initializing to Initialized.  The first step is taken by a placeText call
\* that sees an overlay text element or a changed tile, and by the first
\* such call; a placeText call made while the initialization is under way
\* starts nothing and returns, and only the completion of the
\* initialization takes the second step.
C30_InitializedOnce ==
    [][/\ m_initState' # m_initState =>
             \/ m_initState = "Uninitialized" /\ m_initState' = "Initializing" /\ CallSeesText
             \/ m_initState = "Initializing" /\ m_initState' = "Initialized" /\ ~frame'.called
       /\ (m_initState = "Uninitialized" /\ CallSeesText) => m_initState' = "Initializing"
       /\ (m_initState = "Initializing" /\ frame'.called) =>
             /\ m_initState' = "Initializing"
             /\ ~frame'.ran
             /\ UNCHANGED <<cache, loadingState, overlay>>]_vars

C30_Witness ==
    /\ m_initState = "Initializing"
    /\ frame.called
    /\ ~frame.ran
    /\ overlay = "undefined"
    /\ textElementsChanged = {}
    /\ renderedTiles = {1, 2}

\* The place of a loadingState in the order undefined, Requested, Loaded,
\* Initialized ("none": there is no such element yet).
LoadRank(state) ==
    CASE state = "none" -> 0
      [] state = "undefined" -> 1
      [] state = "Requested" -> 2
      [] state = "Loaded" -> 3
      [] state = "Initialized" -> 4

\* One step of a loadingState with text `text`, from `old` to `new`, in a
\* step that is a placeText frame (inFrame) or something between frames.
LoadStepAllowed(old, new, text, inFrame) ==
    /\ LoadRank(new) >= LoadRank(old)
    /\ (new = "Requested" /\ old # new) => (old = "undefined" /\ text # "" /\ inFrame)
    /\ text = "" => new # "Requested"
    /\ (new = "Loaded" /\ old # new) => (old = "Requested" /\ ~inFrame)
    /\ (new = "Initialized" /\ old # new) =>
           (inFrame /\ (old = "Loaded" \/ (old = "undefined" /\ text = "")))

\* C31: the loadingState of an element of a tile, and of the overlay text
\* element, only advances in the order undefined, Requested, Loaded,
\* Initialized.  Requested is entered only from undefined, by a frame and for
\* a text that is not empty (so the glyphs are requested at most once);
\* Loaded is entered from Requested by the completion of the request; an
\* element with empty text is never Requested and gets through Loaded
\* within the frame that first reaches it.
C31_LoadingStateAdvances ==
    [][/\ \A e \in Elements :
             LoadStepAllowed(loadingState[e], loadingState'[e], ElementText[e], frame'.ran)
       /\ LoadStepAllowed(overlay, overlay', "overlay", frame'.ran)]_vars

C31_Witness ==
    /\ loadingState[3] = "Initialized"
    /\ loadingState[1] = "Initialized"
    /\ loadingState[4] = "Requested"
    /\ overlay = "Initialized"
    /\ frame.ran

(***************************************************************************)
(* The cache with groups whose point labels share a text, two of them near *)
(* each other and one far from both, and a caller that deduplicates the    *)
(* element states it holds.                                                *)
(***************************************************************************)
FarGroups == {1, 2, 5}

FarNext ==
    \/ \E g \in FarGroups : CacheGetOrSet(g)
    \/ CacheClearTextCache
    \/ \E r \in Refs : CacheDeduplicate(r)

SpecFar == CacheInit /\ [][FarNext]_vars

\* C32: deduplicateElement returns false only for a point label that has a
\* candidate of the same text at a squared distance below the threshold.
\* For a label that is no point label it returns true and changes nothing;
\* for a point label without such a candidate (none of its text, or all of
\* them at or beyond the threshold) it returns true and appends the state to
\* the candidates of its text, changing nothing else.
C32_FalseOnlyForNearDuplicate ==
    lastOp.op = "deduplicateElement" =>
        /\ ~lastOp.res =>
              /\ ElementType[lastOp.ref[1]] = "PoiLabel"
              /\ NearCandidates(lastOp.before, lastOp.ref) # {}
        /\ ElementType[lastOp.ref[1]] # "PoiLabel" =>
              /\ lastOp.res
              /\ lastOp.after = lastOp.before
        /\ (/\ ElementType[lastOp.ref[1]] = "PoiLabel"
            /\ NearCandidates(lastOp.before, lastOp.ref) = {}) =>
              /\ lastOp.res
              /\ lastOp.after =
                    [lastOp.before EXCEPT !.tm[ElementText[lastOp.ref[1]]] = Append(@, lastOp.ref)]

\* A point label is deduplicated whose text has candidates, all of them
\* beyond the threshold, one by 129 square metres only.
C32_Witness ==
    /\ lastOp.op = "deduplicateElement"
    /\ lastOp.ref[1] = 6
    /\ lastOp.res
    /\ Len(lastOp.before.tm["a"]) = 1
    /\ lastOp.before.tm["a"][1][1] = 2
    /\ DistSq(6, 2) = 15000000 + 129
    /\ Len(lastOp.after.tm["a"]) = 2
    /\ lastOp.after.tm["a"][2] = lastOp.ref

\* A path label is deduplicated while its text index holds candidates.
C32_WitnessPath ==
    /\ lastOp.op = "deduplicateElement"
    /\ ElementType[lastOp.ref[1]] = "PathLabel"
    /\ lastOp.res
    /\ lastOp.before.tm["a"] # <<>>

(***************************************************************************)
(* The update phase on its own: the rendered tiles of one data source come *)
(* as an array in any order, and the groups of the tiles are re-derived in *)
(* the cache.  Between updates the caller evicts and clears the visited    *)
(* flags and the text index.                                               *)
(***************************************************************************)
\* The sets of rendered tiles.
OrderViews == {{1, 2}, {1, 2, 3}}

\* The arrays that hold every tile of `tiles` once.
TileOrders(tiles) ==
    {o \in [1..Cardinality(tiles) -> tiles] : \A i, j \in DOMAIN o : o[i] = o[j] => i = j}

\* The groups of the lists of sortedGroups, in the order of the lists.
RECURSIVE GroupCalls(_)
GroupCalls(sortedGroups) ==
    IF sortedGroups = <<>> THEN <<>>
    ELSE Head(sortedGroups) \o GroupCalls(Tail(sortedGroups))

\* The tile that holds group g.
TileOf(g) == CHOOSE t \in Tiles : g \in Range(TileGroups[t])

\* The caller's state after the update phase over visibleTiles has left res.
UpdateTextElementsReturned(visibleTiles, isDynamic, tick, before, res) ==
    /\ \A g \in CachedKeys(res.c) : res.c.gs[g].gen # 0
    /\ cache' = Settle(res.c)
    /\ lastOp' = [op |-> "updateTextElements", order |-> visibleTiles,
                  isDynamic |-> isDynamic, tick |-> tick,
                  before |-> before, after |-> res.c, derived |-> res.derived,
                  calls |-> GroupCalls(createSortedGroupsForSorting(
                                           TileGroupList(sortTiles(visibleTiles))))]

CacheUpdateTextElements(visibleTiles, isDynamic, tick) ==
    /\ checkIfOverloaded(Range(visibleTiles)) \/ ~isDynamic
    /\ isDynamic \/ tick = 0
    /\ UpdateTextElementsReturned(visibleTiles, isDynamic, tick, Enter(cache),
                                  updateTextElementsFromTiles(Enter(cache), visibleTiles,
                                                              isDynamic, tick))
    /\ UNCHANGED rendererVars

OrderNext ==
    \/ \E tiles \in OrderViews :
          \E o \in TileOrders(tiles), isDynamic \in BOOLEAN, tick \in UpdateTicks :
              CacheUpdateTextElements(o, isDynamic, tick)
    \/ CacheUpdate(0, FALSE, FALSE)
    \/ CacheClearVisited
    \/ CacheClearTextCache

SpecOrder == CacheInit /\ [][OrderNext]_vars

\* The groups of `calls` come in descending priority and, within one
\* priority, in ascending Morton code of their tiles.
InUpdateOrder(calls) ==
    \A i, j \in DOMAIN calls :
        i < j => \/ GroupPriority[calls[i]] > GroupPriority[calls[j]]
                 \/ /\ GroupPriority[calls[i]] = GroupPriority[calls[j]]
                    /\ mortonCode(TileOf(calls[i])) <= mortonCode(TileOf(calls[j]))

\* C33: what the update phase leaves of the cache (the element states that
\* are initialized, the duplicate that survives, the text index) and the
\* groups it re-derives are the same for every order in which the rendered
\* tiles of the data source are supplied; the groups are re-derived in
\* descending priority and, within one priority, in ascending Morton code
\* of their tiles.
C33_UpdateIndependentOfTileOrder ==
    lastOp.op = "updateTextElements" =>
        /\ InUpdateOrder(lastOp.calls)
        /\ \A o \in TileOrders(Range(lastOp.order)) :
              updateTextElementsFromTiles(lastOp.before, o, lastOp.isDynamic, lastOp.tick)
                  = [c |-> lastOp.after, derived |-> lastOp.derived]

\* The tiles came in descending Morton code, and of the two point labels of
\* one text the one of the tile with the lower code survives.
C33_Witness ==
    /\ lastOp.op = "updateTextElements"
    /\ lastOp.order = <<3, 2, 1>>
    /\ lastOp.calls = <<1, 2, 3, 4>>
    /\ lastOp.before.ref = <<>>
    /\ CachedState(lastOp.after, 1).dist
    /\ ~CachedState(lastOp.after, 2).dist

(***************************************************************************)
(* The renderer with a clock that advances in both phases of a frame, over *)
(* a view that is overloaded and one that is not.                          *)
(***************************************************************************)
LoadTicks == {0, 11}

LoadNext ==
    \/ \E tiles \in BudgetViews, isDynamic \in BOOLEAN,
          updateTick \in UpdateTicks, placeTick \in LoadTicks :
           PlaceText(tiles, 0, isDynamic, updateTick, placeTick)
    \/ InitComplete
    \/ \E e \in Elements : GlyphsLoaded(e)
    \/ InvalidateCache

SpecLoad == Init /\ [][LoadNext]_vars

\* C34: in a frame of a renderer that is not overloaded, or of a view that
\* is not dynamic, neither phase stops early: an update passes every group
\* of every rendered tile to getOrSet, the placement time limit is never
\* exceeded, and unless maxNumVisibleLabels is reached every visible element
\* of every cached group is attempted in the persistent pass.
C34_NoEarlyStopUnlessTimed ==
    (frame.ran /\ ~frame.placeTimed) =>
        /\ ~frame.timed
        /\ frame.updated =>
              /\ frame.derived = TilesGroups(frame.tiles)
              /\ frame.skipped = {}
        /\ frame.exceededAt < 0
        /\ frame.unplaced = {}
        /\ frame.num < m_options.maxNumVisibleLabels =>
              \A e \in frame.persistent : <<e, PersistentLabels>> \in Range(frame.log)

\* An overloaded renderer has updated and placed in a view that is not
\* dynamic: the four groups of the three tiles were re-derived, and the
\* visible elements were attempted.
C34_Witness ==
    /\ frame.ran /\ ~frame.placeTimed
    /\ m_overloaded
    /\ frame.updated
    /\ frame.derived = {1, 2, 3, 4}
    /\ frame.persistent # {}
    /\ \A e \in frame.persistent : <<e, PersistentLabels>> \in Range(frame.log)

\* A renderer that is not overloaded has placed in a frame without update.
C34_WitnessNotOverloaded ==
    /\ frame.ran /\ ~m_overloaded
    /\ ~frame.updated
    /\ frame.persistent # {}
    /\ frame.num < m_options.maxNumVisibleLabels

\* C35: after clear the cache holds no group, its sorted view is empty and
\* its text index is empty; the getOrSet that follows creates a new group
\* state for whatever group it is called with (wasCached = false), and none
\* of the point labels of that group is left without a view distance as the
\* duplicate of a candidate registered before the clear.
C35_ClearForgetsEverything ==
    /\ lastOp.op = "clear" =>
          /\ cache.ref = <<>>
          /\ CachedKeys(cache) = {}
          /\ sortedGroupStates(cache).sorted.v = <<>>
          /\ \A t \in Texts : cache.tm[t] = <<>>
    /\ (lastOp.op = "getOrSet" /\ lastOp.afterClear) =>
          /\ ~lastOp.wasCached
          /\ lastOp.grown = 1
          /\ cache.ref = <<lastOp.key>>
          /\ \A i \in DOMAIN GroupElements[lastOp.key] :
                ElementType[GroupElements[lastOp.key][i]] = "PoiLabel" =>
                    /\ CachedState(cache, GroupElements[lastOp.key][i]).dist
                    /\ cache.tm[ElementText[GroupElements[lastOp.key][i]]] =
                           <<<<GroupElements[lastOp.key][i], cache.gs[lastOp.key].gen>>>>

\* A clear has emptied a cache that held two groups and a candidate of
\* element 1, and the getOrSet that followed has created the state of its
\* twin, element 2, with a view distance.
C35_Witness ==
    /\ lastOp.op = "getOrSet" /\ lastOp.afterClear
    /\ lastOp.key = 2
    /\ 1 \in lastOp.cleared
    /\ ~lastOp.wasCached
    /\ CachedState(cache, 2).dist

\* C36: every element state the text index refers to belongs to a group
\* state that is in the cache at that time, so that the states of an
\* evicted group take no part in the deduplication of a later cycle.
C36_IndexedStatesAreCached ==
    \A t \in Texts : \A r \in Range(cache.tm[t]) : IsCachedRef(cache, r)

\* C37: the assertions of replaceElement hold whenever it is called: the
\* element state it is called with is visible, and a candidate of the same
\* text it finds within the threshold is not visible (hence another state
\* than the visible one it was called with).
C37_ReplaceAssertionsHold ==
    /\ "replaceElement.visible" \notin cache.failed
    /\ "replaceElement.replacement" \notin cache.failed

\* C38: a change of a tile's text elements that a placeText call sees while
\* the renderer is not initialized is not lost.  Such a call leaves the
\* renderer initializing with the cache invalidated; the cache stays
\* invalidated until a frame runs, also when the initialization completes
\* in between; and a frame that finds the cache invalidated updates the
\* text elements, whether or not a tile reports a change or the rendered
\* tiles have changed.  So the first frame after the initialization updates.
C38_ChangeSeenEarlyIsKept ==
    [][/\ (frame'.called /\ ~frame'.ran /\ frame'.tiles \cap textElementsChanged # {}) =>
             /\ m_initState' = "Initializing"
             /\ m_cacheInvalidated'
       /\ (m_initState = "Initializing" /\ m_initState' = "Initialized") =>
             m_cacheInvalidated'
       /\ m_cacheInvalidated =>
             \/ m_cacheInvalidated' /\ ~frame'.ran
             \/ frame'.ran /\ frame'.updated /\ frame'.derived = TilesGroups(frame'.tiles)]_vars

\* The first frame since the initialization has run over the tiles of the
\* call that started it: no tile reported a change and the rendered tiles
\* were the same, and the text elements were updated.
C38_Witness ==
    /\ frame.ran
    /\ frame.invalidated
    /\ ~frame.changed
    /\ ~frame.moved
    /\ frame.updated
    /\ frame.tiles = {1, 2}
    /\ frame.derived = {1, 2, 3}
    /\ frame.evicted = {} /\ frame.visitedBefore = {}

(***************************************************************************)
(* The renderer with a caller that clears the visited flags of the cached  *)
(* groups between frames.                                                  *)
(***************************************************************************)
\* clearVisited() between two frames.
ClearVisitedGroups ==
    /\ VisitedKeys(cache) # {}
    /\ cache' = clearVisited(Enter(cache))
    /\ frame' = NoFrame
    /\ UNCHANGED <<lastOp, m_initState, m_overloaded, m_cacheInvalidated, m_forceNewLabelsPass,
                   m_options, loadingState, renderedTiles, m_screenCollisions,
                   textElementsChanged, overlay>>

VisitNext ==
    \/ \E tiles \in Views : PlaceText(tiles, 0, FALSE, 0, 0)
    \/ InitComplete
    \/ \E e \in Elements : GlyphsLoaded(e)
    \/ ClearVisitedGroups

SpecVisit == EventsInit /\ [][VisitNext]_vars

\* The element e, of a group that is not visited, as a frame f leaves it in
\* the cache `after`, having found it in the cache `before`.
UnvisitedHandled(f, before, after, e) ==
    /\ e \notin f.drawn
    /\ e \notin f.texts
    /\ (e \in f.added /\ ElementType[e] = "PathLabel") =>
          /\ CachedState(after, e).text = NewRenderState
          /\ ~esVisible(CachedState(after, e))
    /\ (e \in f.added /\ ElementType[e] # "PathLabel" /\ HasPoiInfo[e]) =>
          \A i \in 1..NumIcons(e) :
              isVisible(CachedState(before, e).icons[i]) =>
                  isFadingOut(CachedState(after, e).icons[i])

C39_WitnessIcon ==
    /\ frame.ran
    /\ frame.visitedAfter = {}
    /\ {3, 4} \subseteq frame.added
    /\ isFadingOut(CachedState(cache, 3).icons[1])
    /\ CachedState(cache, 4).text = NewRenderState

(***************************************************************************)
(* The renderer with a clock that advances 4 ms between two readings in    *)
(* the placement phase, so that the time limit is exceeded at the third    *)
(* reading of a frame.                                                     *)
(***************************************************************************)
SlowTicks == {0, 4}

SlowNext ==
    \/ \E tiles \in Views, isDynamic \in BOOLEAN, placeTick \in SlowTicks :
           PlaceText(tiles, 0, isDynamic, 0, placeTick)
    \/ InitComplete
    \/ \E e \in Elements : GlyphsLoaded(e)
    \/ InvalidateCache

SpecSlow == EventsInit /\ [][SlowNext]_vars

\* C40: within one frame every element of a tile is attempted for placement
\* at most once: not in the persistent pass and again in the new-label pass,
\* and not twice in the new-label pass.
C40_AttemptedOncePerFrame ==
    frame.ran =>
        \A k, j \in DOMAIN frame.log : frame.log[k][1] = frame.log[j][1] => k = j

====
